---------------------------- MODULE Spec2Model ----------------------------
(***************************************************************************)
(* The object-storage client of src/api/clients/r2.py: the SigV4 signer    *)
(* (R2Client._sign_request) and the two operations built on it             *)
(* (R2Client.upload_file, R2Client.delete_file); and the user-choice       *)
(* router of src/api/routers/user_choice.py with its table; and the shelf  *)
(* assistant of src/agents/shelf_assistant.py, a client of that router,    *)
(* with the image router of src/agents/test_gemini.py it grew from.        *)
(*                                                                         *)
(* Text and bytes are sequences of code points / byte values (naturals).   *)
(* SHA-256 and HMAC-SHA256 are modelled as collision-free: a digest is the *)
(* bracketed term of its inputs.  The brackets are negative numbers, which *)
(* no text or byte string contains:                                        *)
(*     -1  opens a SHA-256 digest         -4  closes a digest or a hex     *)
(*     -2  opens an HMAC-SHA256 digest    -5  opens the hex of a digest    *)
(*     -3  parts key from message inside an HMAC                           *)
(***************************************************************************)
EXTENDS Integers, Sequences, FiniteSets, TLC

VARIABLES
    settings,   \* config.settings, the process-wide settings object
    client,     \* the R2Client instance: the fields __init__ sets
    now,        \* the UTC clock dt.now(UTC) reads, in whole seconds
    calls,      \* the upload_file / delete_file calls made on the client
    transport,  \* the HTTP requests handed to httpx, in order
    sgBase,     \* signer harness: the arguments of the base request
    sgLog,      \* signer harness: the _sign_request invocations made
    sgCount,    \* signer harness: how many invocations were made
    user_choices,  \* the user_choices table: its committed rows
    requests,   \* the requests the user-choice router has taken up
    reply,      \* what GET /user-choice/latest answered last
    stream,     \* the file object a caller hands to upload_file
    program,    \* the agent script the process runs, once it is started
    directory,  \* the photo files in the photos directory
    main,       \* the agent's main() coroutine: where it stands
    tasks,      \* the process_image coroutines the watcher has scheduled
    processed_files,      \* the agent's processed_files set
    current_user_choice,  \* ShelfAssistant.current_user_choice
    guidance_agent,       \* ShelfAssistant.guidance_agent
    generated   \* the GeminiAgent.generate calls made, in order

vars == <<settings, client, now, calls, transport, sgBase, sgLog, sgCount,
          user_choices, requests, reply, stream, program, directory, main,
          tasks, processed_files, current_user_choice, guidance_agent,
          generated>>

\* the variables of the storage client and of the signer harness
storageVars == <<settings, client, calls, transport, sgBase, sgLog, sgCount,
                 stream>>

\* the variables of the user-choice router
routerVars == <<user_choices, requests, reply>>

\* the variables of the agent process
agentVars == <<program, directory, main, tasks, processed_files,
               current_user_choice, guidance_agent, generated>>

---------------------------------------------------------------------------
(* Bounds of the model.                                                    *)

MaxCalls == 2          \* calls made on the client in one behaviour
MaxTicks == 1          \* seconds the clock advances in one behaviour
MaxInvocations == 4    \* signer invocations in one harness behaviour

---------------------------------------------------------------------------
(* Literal text of the source.                                             *)

AlgorithmName == <<65, 87, 83, 52, 45, 72, 77, 65, 67, 45, 83, 72, 65, 50, 53, 54>>  \* "AWS4-HMAC-SHA256"
Region == <<97, 117, 116, 111>>  \* "auto"
Service == <<115, 51>>  \* "s3"
Aws4Request == <<97, 119, 115, 52, 95, 114, 101, 113, 117, 101, 115, 116>>  \* "aws4_request"
Aws4 == <<65, 87, 83, 52>>  \* "AWS4"
AuthorizationName == <<65, 117, 116, 104, 111, 114, 105, 122, 97, 116, 105, 111, 110>>  \* "Authorization"
HostName == <<72, 111, 115, 116>>  \* "Host"
ContentTypeName == <<67, 111, 110, 116, 101, 110, 116, 45, 84, 121, 112, 101>>  \* "Content-Type"
XAmzDateName == <<120, 45, 97, 109, 122, 45, 100, 97, 116, 101>>  \* "x-amz-date"
XAmzContentSha256Name == <<120, 45, 97, 109, 122, 45, 99, 111, 110, 116, 101, 110, 116, 45, 115, 104, 97, 50, 53, 54>>  \* "x-amz-content-sha256"
R2Domain == <<46, 114, 50, 46, 99, 108, 111, 117, 100, 102, 108, 97, 114, 101, 115, 116, 111, 114, 97, 103, 101, 46, 99, 111, 109>>  \* ".r2.cloudflarestorage.com"
Https == <<104, 116, 116, 112, 115, 58, 47, 47>>  \* "https://"
PUT == <<80, 85, 84>>  \* "PUT"
DELETE == <<68, 69, 76, 69, 84, 69>>  \* "DELETE"
CredentialEq == <<32, 67, 114, 101, 100, 101, 110, 116, 105, 97, 108, 61>>  \* " Credential="
SignedHeadersEq == <<44, 32, 83, 105, 103, 110, 101, 100, 72, 101, 97, 100, 101, 114, 115, 61>>  \* ", SignedHeaders="
SignatureEq == <<44, 32, 83, 105, 103, 110, 97, 116, 117, 114, 101, 61>>  \* ", Signature="
OctetStream == <<97, 112, 112, 108, 105, 99, 97, 116, 105, 111, 110, 47, 111, 99, 116, 101, 116, 45, 115, 116, 114, 101, 97, 109>>  \* "application/octet-stream"
UploadFailed == <<70, 97, 105, 108, 101, 100, 32, 116, 111, 32, 117, 112, 108, 111, 97, 100, 32, 102, 105, 108, 101, 32, 116, 111, 32, 82, 50, 58, 32>>  \* "Failed to upload file to R2: "
DeleteFailed == <<70, 97, 105, 108, 101, 100, 32, 116, 111, 32, 100, 101, 108, 101, 116, 101, 32, 102, 105, 108, 101, 32, 102, 114, 111, 109, 32, 82, 50, 58, 32>>  \* "Failed to delete file from R2: "
KeyCannotBeEmpty == <<75, 101, 121, 32, 99, 97, 110, 110, 111, 116, 32, 98, 101, 32, 101, 109, 112, 116, 121>>  \* "Key cannot be empty"

NL == <<10>>      \* "\n"
Slash == <<47>>   \* "/"
Colon == <<58>>   \* ":"
Semi == <<59>>    \* ";"

---------------------------------------------------------------------------
(* Python's text primitives, as the signer uses them.                      *)

\* str.lower() on ASCII text: A..Z become a..z, everything else stays.
Lower(s) == [i \in 1..Len(s) |-> IF s[i] \in 65..90 THEN s[i] + 32 ELSE s[i]]

\* a < b for two str values: code point by code point, a proper prefix first.
RECURSIVE StrLess(_, _)
StrLess(a, b) ==
    IF b = <<>> THEN FALSE
    ELSE IF a = <<>> THEN TRUE
    ELSE IF Head(a) # Head(b) THEN Head(a) < Head(b)
    ELSE StrLess(Tail(a), Tail(b))

\* (k1, v1) < (k2, v2) for two items of a dict: the tuple order of Python.
ItemLess(p, q) == StrLess(p[1], q[1]) \/ (p[1] = q[1] /\ StrLess(p[2], q[2]))

\* sep.join(parts)
RECURSIVE Join(_, _)
Join(sep, parts) ==
    IF parts = <<>> THEN <<>>
    ELSE IF Len(parts) = 1 THEN parts[1]
    ELSE parts[1] \o sep \o Join(sep, Tail(parts))

\* the items left in insertion order
SortedItems_unsorted(items) == items

\* sorted(...) over a sequence of dict items.
RECURSIVE SortedItems(_)
SortedItems(items) ==
    IF items = <<>> THEN <<>>
    ELSE LET rest == SortedItems(Tail(items))
             x == Head(items)
             n == Cardinality({i \in 1..Len(rest) : ItemLess(rest[i], x)})
         IN SubSeq(rest, 1, n) \o <<x>> \o SubSeq(rest, n + 1, Len(rest))

\* sorted(...) over a sequence of str.
RECURSIVE SortedStrs(_)
SortedStrs(strs) ==
    IF strs = <<>> THEN <<>>
    ELSE LET rest == SortedStrs(Tail(strs))
             x == Head(strs)
             n == Cardinality({i \in 1..Len(rest) : StrLess(rest[i], x)})
         IN SubSeq(rest, 1, n) \o <<x>> \o SubSeq(rest, n + 1, Len(rest))

\* str.encode() of text that is not all ASCII: UTF-8, for code points
\* below 2048 (the text is split in halves, to keep the recursion shallow).
RECURSIVE Utf8EncodeWide(_)
Utf8EncodeWide(s) ==
    IF s = <<>> THEN <<>>
    ELSE IF Len(s) = 1
         THEN (IF s[1] < 128 THEN s
               ELSE <<192 + (s[1] \div 64), 128 + (s[1] % 64)>>)
         ELSE Utf8EncodeWide(SubSeq(s, 1, Len(s) \div 2))
                  \o Utf8EncodeWide(SubSeq(s, (Len(s) \div 2) + 1, Len(s)))

\* str.encode(): ASCII text is its own UTF-8 encoding.  (The brackets of a
\* digest inside the text stay as they are: the hex of a digest is ASCII.)
Utf8Encode(s) == IF \A i \in 1..Len(s) : s[i] < 128 THEN s ELSE Utf8EncodeWide(s)

\* one upper-case hexadecimal digit
HexDigit(n) == IF n < 10 THEN 48 + n ELSE 55 + n

\* the characters urllib.parse.quote never escapes, and "/" (safe="/")
QuoteSafe == (65..90) \cup (97..122) \cup (48..57) \cup {95, 46, 45, 126} \cup {47}

\* urllib.parse.quote(path, safe="/"), on the bytes of the path
RECURSIVE QuoteBytes(_)
QuoteBytes(bs) ==
    IF bs = <<>> THEN <<>>
    ELSE IF Len(bs) = 1
         THEN (IF bs[1] \in QuoteSafe THEN bs
               ELSE <<37, HexDigit(bs[1] \div 16), HexDigit(bs[1] % 16)>>)
         ELSE QuoteBytes(SubSeq(bs, 1, Len(bs) \div 2))
                  \o QuoteBytes(SubSeq(bs, (Len(bs) \div 2) + 1, Len(bs)))

Quote(path) == QuoteBytes(Utf8Encode(path))

\* n in decimal, zero-padded to w digits
RECURSIVE Pad(_, _)
Pad(n, w) == IF w = 0 THEN <<>> ELSE Pad(n \div 10, w - 1) \o <<48 + (n % 10)>>

\* A timestamp is a number of seconds since 2024-01-01T00:00:00Z, within
\* January 2024 (the microseconds of dt.now are dropped by both formats).
\* timestamp.strftime("%Y%m%d")
StrftimeDate(ts) == Pad(2024, 4) \o Pad(1, 2) \o Pad(1 + (ts \div 86400), 2)

\* timestamp.strftime("%Y%m%dT%H%M%SZ")
StrftimeAmz(ts) ==
    StrftimeDate(ts) \o <<84>> \o Pad((ts % 86400) \div 3600, 2)
        \o Pad((ts % 3600) \div 60, 2) \o Pad(ts % 60, 2) \o <<90>>

---------------------------------------------------------------------------
(* hashlib and hmac, collision-free.                                       *)

\* hashlib.sha256(data).digest()
Sha256(data) == <<-1>> \o data \o <<-4>>

\* hmac.new(key, msg, hashlib.sha256).digest()
HmacSha256(key, msg) == <<-2>> \o key \o <<-3>> \o msg \o <<-4>>

\* .hexdigest(): the digest in hexadecimal text
Hex(digest) == <<-5>> \o digest \o <<-4>>

---------------------------------------------------------------------------
(* A dict[str, str] is the sequence of its items <<key, value>> in         *)
(* insertion order, the keys distinct.                                     *)

DictKeys(d) == [i \in 1..Len(d) |-> d[i][1]]
DictHas(d, k) == \E i \in 1..Len(d) : d[i][1] = k
DictGet(d, k) == d[CHOOSE i \in 1..Len(d) : d[i][1] = k][2]

\* d[k] = v: an existing key keeps its place, a new one goes last.
DictSet(d, k, v) ==
    IF DictHas(d, k)
    THEN [i \in 1..Len(d) |-> IF d[i][1] = k THEN <<k, v>> ELSE d[i]]
    ELSE Append(d, <<k, v>>)

---------------------------------------------------------------------------
(* R2Client.__init__                                                       *)

\* `a or b` on two str values: b when a is None or empty (None is <<>> here)
Or(a, b) == IF a # <<>> THEN a ELSE b

\* R2Client(access_key_id, secret_access_key, account_id, bucket_name)
NewR2Client(access_key_id, secret_access_key, account_id, bucket_name) ==
    LET account == Or(account_id, settings.cloudflare_account_id)
    IN [access_key_id     |-> Or(access_key_id, settings.r2_access_key_id),
        secret_access_key |-> Or(secret_access_key, settings.r2_secret_access_key),
        account_id        |-> account,
        bucket_name       |-> Or(bucket_name, settings.r2_bucket_name),
        endpoint_url      |-> Https \o account \o R2Domain]

---------------------------------------------------------------------------
(* R2Client._sign_request, one definition per value it computes.           *)

canonical_uri(path) == Quote(path)

canonical_querystring == <<>>

canonical_headers(headers) ==
    LET items == SortedItems(headers)
    IN Join(NL, [i \in 1..Len(items) |-> Lower(items[i][1]) \o Colon \o items[i][2]])
           \o NL

\* only the Host header signed
signed_headers_host_only(headers) ==
    LET keys == SelectSeq(DictKeys(headers), LAMBDA k : Lower(k) = Lower(HostName))
    IN Join(Semi, SortedStrs([i \in 1..Len(keys) |-> Lower(keys[i])]))

signed_headers(headers) ==
    LET keys == DictKeys(headers)
    IN Join(Semi, SortedStrs([i \in 1..Len(keys) |-> Lower(keys[i])]))

\* the payload left out of the signature
payload_hash_unsigned(payload) ==
    <<85, 78, 83, 73, 71, 78, 69, 68, 45, 80, 65, 89, 76, 79, 65, 68>>  \* "UNSIGNED-PAYLOAD"

payload_hash(payload) == Hex(Sha256(payload))

\* the canonical request with no newline added after the headers block,
\* which ends in one already: no blank line before the signed-headers list
canonical_request_single_newline(method, path, headers, payload) ==
    method \o NL \o canonical_uri(path) \o NL \o canonical_querystring \o NL
        \o canonical_headers(headers) \o signed_headers(headers) \o NL
        \o payload_hash(payload)

canonical_request(method, path, headers, payload) ==
    method \o NL \o canonical_uri(path) \o NL \o canonical_querystring \o NL
        \o canonical_headers(headers) \o NL \o signed_headers(headers) \o NL
        \o payload_hash(payload)

\* the scope with the service token before the region token
credential_scope_service_first(timestamp) ==
    StrftimeDate(timestamp) \o Slash \o Service \o Slash \o Region \o Slash
        \o Aws4Request

credential_scope(timestamp) ==
    StrftimeDate(timestamp) \o Slash \o Region \o Slash \o Service \o Slash
        \o Aws4Request

\* the signer with its timestamp read from the clock instead of its argument
string_to_sign_clock(method, path, headers, payload, timestamp) ==
    AlgorithmName \o NL \o StrftimeAmz(now) \o NL \o credential_scope(timestamp)
        \o NL
        \o Hex(Sha256(Utf8Encode(canonical_request(method, path, headers, payload))))

string_to_sign(method, path, headers, payload, timestamp) ==
    AlgorithmName \o NL \o StrftimeAmz(timestamp) \o NL
        \o credential_scope(timestamp) \o NL
        \o Hex(Sha256(Utf8Encode(canonical_request(method, path, headers, payload))))

\* _sign(key, msg)
Sign(key, msg) == HmacSha256(key, Utf8Encode(msg))

\* the date key kept from the first request sent through the client, and
\* derived afresh only when there was none
k_date_cached(self, timestamp) ==
    Sign(Utf8Encode(Aws4 \o self.secret_access_key),
         IF transport = <<>> THEN StrftimeDate(timestamp)
         ELSE SubSeq(DictGet(transport[1].headers, XAmzDateName), 1, 8))

k_date(self, timestamp) ==
    Sign(Utf8Encode(Aws4 \o self.secret_access_key), StrftimeDate(timestamp))
\* the region key derived with the service token: the chain out of order
k_region_with_service(self, timestamp) == Sign(k_date(self, timestamp), Service)

k_region(self, timestamp) == Sign(k_date(self, timestamp), Region)
k_service(self, timestamp) == Sign(k_region(self, timestamp), Service)
k_signing(self, timestamp) == Sign(k_service(self, timestamp), Aws4Request)

signature(self, method, path, headers, payload, timestamp) ==
    Hex(HmacSha256(k_signing(self, timestamp),
            Utf8Encode(string_to_sign(method, path, headers, payload, timestamp))))

\* the Credential field with the access key id alone, the scope left out
authorization_without_scope(self, method, path, headers, payload, timestamp) ==
    AlgorithmName \o CredentialEq \o self.access_key_id
        \o SignedHeadersEq \o signed_headers(headers)
        \o SignatureEq \o signature(self, method, path, headers, payload, timestamp)

authorization(self, method, path, headers, payload, timestamp) ==
    AlgorithmName \o CredentialEq \o self.access_key_id \o Slash
        \o credential_scope(timestamp) \o SignedHeadersEq \o signed_headers(headers)
        \o SignatureEq \o signature(self, method, path, headers, payload, timestamp)

\* the signer setting Authorization in a copy: the caller's dict left as it was
caller_headers_untouched(self, method, path, headers, payload, timestamp) ==
    headers

\* headers["Authorization"] = authorization acts on the dict object the
\* caller passed: this is the caller's dict after the call.
caller_headers(self, method, path, headers, payload, timestamp) ==
    DictSet(headers, AuthorizationName,
            authorization(self, method, path, headers, payload, timestamp))

\* The call as a whole: the dict it returns is the caller's own dict, with
\* the Authorization item set in it.
sign_request(self, method, path, headers, payload, timestamp) ==
    DictSet(headers, AuthorizationName,
            authorization(self, method, path, headers, payload, timestamp))

---------------------------------------------------------------------------
(* The state every behaviour starts from: the settings as loaded, and a    *)
(* client constructed from them.                                           *)

\* config.settings, with the R2 fields set from the environment
LoadedSettings ==
    [cloudflare_account_id |-> <<97, 99, 99, 116>>,                     \* "acct"
     r2_access_key_id      |-> <<65, 75, 73, 68, 69, 88, 65, 77, 80, 76, 69>>,  \* "AKIDEXAMPLE"
     r2_secret_access_key  |-> <<115, 101, 99, 114, 101, 116>>,         \* "secret"
     r2_bucket_name        |-> <<98, 108, 105, 110, 100, 115, 105, 103, 104, 116, 101, 100>>,  \* "blindsighted"
     r2_public_url         |-> <<104, 116, 116, 112, 115, 58, 47, 47, 99, 100, 110, 46, 101, 120, 97, 109, 112, 108, 101, 46, 99, 111, 109>>]  \* "https://cdn.example.com"

\* The clock starts one second before midnight: 2024-01-01T23:59:59Z.
ClockStart == 24 * 3600 - 1

\* r2_client = R2Client(), as the scripts construct it
Constructed ==
    /\ settings = LoadedSettings
    /\ client = NewR2Client(<<>>, <<>>, <<>>, <<>>)
    /\ now = ClockStart

\* dt.now(UTC) moves on by a second.
Tick ==
    /\ now < ClockStart + MaxTicks
    /\ now' = now + 1
    /\ UNCHANGED <<storageVars, routerVars, agentVars>>

---------------------------------------------------------------------------
(* R2Client.upload_file and R2Client.delete_file.  A call runs without     *)
(* suspension from its first line to the await of the HTTP request; it     *)
(* resumes when the transport answers, and runs to its end.                *)

Keys == {<<>>, <<112, 104, 111, 116, 111, 115, 47, 97, 46, 106, 112, 103>>}  \* "", "photos/a.jpg"
FileData == {<<>>, <<104, 101, 108, 108, 111>>}          \* b"", b"hello"
ContentTypes == {OctetStream}
Statuses == {200, 204, 301, 403, 404}
TransportErrors == {"ConnectTimeout"}

\* What the transport gives back: a response with a status, or an exception.
Outcomes ==
    {[type |-> "response", status |-> st] : st \in Statuses}
        \cup {[type |-> e, status |-> 0] : e \in TransportErrors}
NoOutcome == [type |-> "none", status |-> 0]

\* What signing leaves behind in a call that has not signed.
NotSigned ==
    [timestamp |-> 0, payload_hash |-> <<>>, canonical_request |-> <<>>,
     credential_scope |-> <<>>, string_to_sign |-> <<>>]

\* The values _sign_request computes for the request it signs.
Signing(method, path, headers, payload, timestamp) ==
    [timestamp         |-> timestamp,
     payload_hash      |-> payload_hash(payload),
     canonical_request |-> canonical_request(method, path, headers, payload),
     credential_scope  |-> credential_scope(timestamp),
     string_to_sign    |-> string_to_sign(method, path, headers, payload, timestamp)]

IdleCall ==
    [pc |-> "idle", op |-> "none", key |-> <<>>, file_data |-> <<>>,
     streamed |-> FALSE, content_type |-> <<>>, signed |-> 0, signing |-> NotSigned,
     outcome |-> NoOutcome,
     result |-> [kind |-> "none", value |-> <<>>, cause |-> NoOutcome]]

\* the check of the key left out
KeyIsEmpty_unchecked(key) == FALSE

\* `not key`
KeyIsEmpty(key) == key = <<>>

\* raise ValueError("Key cannot be empty")
ValueError ==
    [kind |-> "ValueError", value |-> KeyCannotBeEmpty, cause |-> NoOutcome]

\* the object addressed without its bucket
RequestUrl_without_bucket(self, key) == self.endpoint_url \o Slash \o key

\* url = f"{self.endpoint_url}/{self.bucket_name}/{key}"
RequestUrl(self, key) == self.endpoint_url \o Slash \o self.bucket_name \o Slash \o key

\* f"/{self.bucket_name}/{key}"
RequestPath(self, key) == Slash \o self.bucket_name \o Slash \o key

\* the headers with x-amz-date kept from the request sent before, if any:
\* a value that outlives the call that computed it
upload_headers_shared_date(self, content_type, timestamp, file_data) ==
    << <<HostName, self.account_id \o R2Domain>>,
       <<ContentTypeName, content_type>>,
       <<XAmzDateName, IF transport = <<>> THEN StrftimeAmz(timestamp)
                       ELSE DictGet(transport[Len(transport)].headers, XAmzDateName)>>,
       <<XAmzContentSha256Name, Hex(Sha256(file_data))>> >>

\* the headers dict built without the Content-Type item
upload_headers_without_content_type(self, content_type, timestamp, file_data) ==
    << <<HostName, self.account_id \o R2Domain>>,
       <<XAmzDateName, StrftimeAmz(timestamp)>>,
       <<XAmzContentSha256Name, Hex(Sha256(file_data))>> >>

\* the headers with x-amz-date taken from a second reading of the clock, a
\* second after the one the signer is given
upload_headers_second_reading(self, content_type, timestamp, file_data) ==
    << <<HostName, self.account_id \o R2Domain>>,
       <<ContentTypeName, content_type>>,
       <<XAmzDateName, StrftimeAmz(timestamp + 1)>>,
       <<XAmzContentSha256Name, Hex(Sha256(file_data))>> >>

\* the headers with the hash of no bytes, whatever the body
upload_headers_empty_hash(self, content_type, timestamp, file_data) ==
    << <<HostName, self.account_id \o R2Domain>>,
       <<ContentTypeName, content_type>>,
       <<XAmzDateName, StrftimeAmz(timestamp)>>,
       <<XAmzContentSha256Name, Hex(Sha256(<<>>))>> >>

\* the headers dict upload_file builds before signing
upload_headers(self, content_type, timestamp, file_data) ==
    << <<HostName, self.account_id \o R2Domain>>,
       <<ContentTypeName, content_type>>,
       <<XAmzDateName, StrftimeAmz(timestamp)>>,
       <<XAmzContentSha256Name, Hex(Sha256(file_data))>> >>

\* a placeholder signed in place of the empty payload
delete_payload_placeholder == <<78, 111, 110, 101>>     \* b"None"

\* the payload delete_file signs: b""
delete_payload == <<>>

\* the headers dict delete_file builds before signing
delete_headers(self, timestamp) ==
    << <<HostName, self.account_id \o R2Domain>>,
       <<XAmzDateName, StrftimeAmz(timestamp)>>,
       <<XAmzContentSha256Name, Hex(Sha256(<<>>))>> >>

\* raise_for_status with 404 let through, as for an idempotent delete
RaisesForStatus_not_found_ok(status) == status \notin 200..299 /\ status # 404

\* raise_for_status raising on 4xx and 5xx only
RaisesForStatus_errors_only(status) == status >= 400

\* response.raise_for_status() of httpx: any status outside 2xx raises.
RaisesForStatus(status) == status \notin 200..299

\* The exception the try block ends with, if any: the transport's own, or
\* the HTTPStatusError of raise_for_status.
Raised(outcome) ==
    IF outcome.type # "response" THEN outcome
    ELSE IF RaisesForStatus(outcome.status)
         THEN [type |-> "HTTPStatusError", status |-> outcome.status]
         ELSE NoOutcome

\* str(e), as far as the model tells exceptions apart
ErrorText(e) == IF e.type = "HTTPStatusError" THEN Pad(e.status, 3) ELSE <<>>

\* raise Exception(f"Failed to ...: {e}") from e
WrappedException(prefix, e) ==
    [kind |-> "Exception", value |-> prefix \o ErrorText(e), cause |-> e]

\* the URL the request went to, returned as the public URL
public_url_of_request(key) == RequestUrl(client, key)

\* public_url = f"{settings.r2_public_url}/{key}"
public_url(key) == settings.r2_public_url \o Slash \o key

NoCalls == [c \in 1..MaxCalls |-> IdleCall]

\* Calls are numbered in the order they are made.
NextCall(c) ==
    /\ calls[c].pc = "idle"
    /\ \A d \in 1..(c - 1) : calls[d].pc # "idle"

\* file_data as upload_file is given it: a bytes object, or the file object
\* the caller holds
Bytes(data) == [bytes |-> TRUE, data |-> data]
TheStream == [bytes |-> FALSE, data |-> <<>>]

\* `isinstance(file_data, bytes)`
IsBytes(file_data) == file_data.bytes

\* a read of two bytes at most
Read_chunk(f) ==
    LET last == IF f.pos + 2 < Len(f.content) THEN f.pos + 2 ELSE Len(f.content)
    IN [data |-> SubSeq(f.content, f.pos + 1, last), after |-> [f EXCEPT !.pos = last]]

\* file_data.read() on a file object: the bytes from its position to its
\* end, and the object left at its end
Read(f) ==
    [data  |-> SubSeq(f.content, f.pos + 1, Len(f.content)),
     after |-> [f EXCEPT !.pos = Len(f.content)]]

\* upload_file(file_data, key, content_type) as call c, up to the await of
\* client.put, or to the ValueError
upload_file(c, file_data, key, content_type) ==
    LET given == [IdleCall EXCEPT !.op = "upload", !.key = key,
                                  !.streamed = ~IsBytes(file_data),
                                  !.content_type = content_type]
    IN IF KeyIsEmpty(key)
       THEN /\ calls' = [calls EXCEPT ![c] =
                   [given EXCEPT !.pc = "done", !.result = ValueError,
                                 !.file_data = file_data.data]]
            /\ UNCHANGED <<transport, stream>>
       ELSE LET read == IF IsBytes(file_data)
                        THEN [data |-> file_data.data, after |-> stream]
                        ELSE Read(stream)
                timestamp == now
                url == RequestUrl(client, key)
                path == RequestPath(client, key)
                headers == upload_headers(client, content_type, timestamp, read.data)
                signed == sign_request(client, PUT, path, headers, read.data, timestamp)
            IN /\ stream' = read.after
               /\ calls' = [calls EXCEPT ![c] =
                      [given EXCEPT !.pc = "awaiting", !.signed = 1,
                                    !.file_data = read.data,
                                    !.signing = Signing(PUT, path, headers,
                                                        read.data, timestamp)]]
               /\ transport' = Append(transport,
                      [call |-> c, method |-> PUT, url |-> url,
                       headers |-> signed, content |-> read.data])

\* delete_file(key) as call c, up to the await of client.delete, or to the
\* ValueError
delete_file(c, key) ==
    LET given == [IdleCall EXCEPT !.op = "delete", !.key = key]
    IN IF KeyIsEmpty(key)
       THEN /\ calls' = [calls EXCEPT ![c] =
                   [given EXCEPT !.pc = "done", !.result = ValueError]]
            /\ UNCHANGED transport
       ELSE LET timestamp == now
                url == RequestUrl(client, key)
                path == RequestPath(client, key)
                headers == delete_headers(client, timestamp)
                signed == sign_request(client, DELETE, path, headers,
                                       delete_payload, timestamp)
            IN /\ calls' = [calls EXCEPT ![c] =
                      [given EXCEPT !.pc = "awaiting", !.signed = 1,
                                    !.signing = Signing(DELETE, path, headers,
                                                        delete_payload, timestamp)]]
               /\ transport' = Append(transport,
                      [call |-> c, method |-> DELETE, url |-> url,
                       headers |-> signed, content |-> <<>>])

\* A caller uploads bytes.
UploadFile(c) ==
    /\ NextCall(c)
    /\ \E key \in Keys, file_data \in FileData, content_type \in ContentTypes :
           upload_file(c, Bytes(file_data), key, content_type)
    /\ UNCHANGED <<settings, client, now, sgBase, sgLog, sgCount, routerVars,
                   agentVars>>

\* A caller deletes an object.
DeleteFile(c) ==
    /\ NextCall(c)
    /\ \E key \in Keys : delete_file(c, key)
    /\ UNCHANGED <<settings, client, now, sgBase, sgLog, sgCount, stream,
                   routerVars, agentVars>>

\* What a call that was awaiting ends with, given what the transport gave:
\* the rest of the try block, and the except clause.
CallResult(call, outcome) ==
    LET e == Raised(outcome)
    IN IF e # NoOutcome
       THEN WrappedException(IF call.op = "upload" THEN UploadFailed
                             ELSE DeleteFailed, e)
       ELSE IF call.op = "upload"
            THEN [kind |-> "return", value |-> public_url(call.key),
                  cause |-> NoOutcome]
            ELSE [kind |-> "return", value |-> <<>>, cause |-> NoOutcome]

\* A call that sends its request once more when the first attempt fails.
Complete_retrying(c, outcome) ==
    IF Raised(outcome) # NoOutcome
       /\ Cardinality({i \in 1..Len(transport) : transport[i].call = c}) < 2
    THEN /\ transport' = Append(transport,
                transport[CHOOSE i \in 1..Len(transport) : transport[i].call = c])
         /\ UNCHANGED calls
    ELSE /\ calls' = [calls EXCEPT ![c] =
                [@ EXCEPT !.pc = "done", !.outcome = outcome,
                          !.result = CallResult(calls[c], outcome)]]
         /\ UNCHANGED transport

\* The transport answers call c, and the call runs to its end.
Complete(c, outcome) ==
    /\ calls' = [calls EXCEPT ![c] =
           [@ EXCEPT !.pc = "done", !.outcome = outcome,
                     !.result = CallResult(calls[c], outcome)]]
    /\ UNCHANGED transport

Respond(c) ==
    /\ calls[c].pc = "awaiting"
    /\ \E outcome \in Outcomes : Complete(c, outcome)
    /\ UNCHANGED <<settings, client, now, sgBase, sgLog, sgCount, stream,
                   routerVars, agentVars>>

---------------------------------------------------------------------------
(* routers/user_choice.py: the user_choices table and the three handlers   *)
(* on it.  Every request has a session of its own; a handler runs without  *)
(* suspension between two awaits, and every await on the session is one    *)
(* statement or one commit of the database.  No CSV file is uploaded in    *)
(* this model, so the latest CSVFile a handler finds is None.              *)

MaxRequests == 3       \* POST and PATCH requests taken up in one behaviour

\* the request bodies: item_name, and item_location (str | None)
UserChoiceRequests ==
    {[item_name |-> "milk", item_location |-> "None"],
     [item_name |-> "tea", item_location |-> "top shelf"]}

\* No row is committed, no request taken up, nothing asked yet.
NoReply == [asked |-> FALSE, unprocessed_only |-> FALSE, detail |-> <<>>]

RouterIdle ==
    /\ user_choices = <<>>
    /\ requests = <<>>
    /\ reply = NoReply

\* UserChoice(item_name=..., item_location=..., csv_file_id=None,
\* processed=False), with the primary key and the creation time it gets when
\* it is inserted: a fresh id, and the reading of the clock.
NewUserChoice(item_name, item_location) ==
    [id            |-> Len(user_choices) + 1,
     item_name     |-> item_name,
     item_location |-> item_location,
     csv_file_id   |-> "None",
     processed     |-> FALSE,
     created_at    |-> now]

\* POST /user-choice, up to the await of db.commit(): the latest CSVFile was
\* selected (there is none), and the record is built.
CreateUserChoice ==
    /\ Len(requests) < MaxRequests
    /\ \E request \in UserChoiceRequests :
           requests' = Append(requests,
               [op |-> "create", pc |-> "commit", item_name |-> request.item_name,
                item_location |-> request.item_location, choice_id |-> 0,
                status |-> 0])
    /\ UNCHANGED <<storageVars, agentVars, now, user_choices, reply>>

\* db.add(user_choice); await db.commit(); await db.refresh(user_choice);
\* return UserChoiceResponse(message="Choice recorded", id=...)
CreateCommit(h) ==
    /\ requests[h].op = "create"
    /\ requests[h].pc = "commit"
    /\ LET user_choice == NewUserChoice(requests[h].item_name,
                                        requests[h].item_location)
       IN /\ user_choices' = Append(user_choices, user_choice)
          /\ requests' = [requests EXCEPT ![h].pc = "done", ![h].status = 200,
                                          ![h].choice_id = user_choice.id]
    /\ UNCHANGED <<storageVars, agentVars, now, reply>>

\* the query with its where clause left out
LatestQuery_unfiltered(table, unprocessed_only) ==
    LET rows == 1..Len(table)
        first == {i \in rows : \A j \in rows :
                                  table[j].created_at <= table[i].created_at}
    IN IF rows = {} THEN {<<>>} ELSE {<<table[i]>> : i \in first}

\* select(UserChoice).order_by(desc(UserChoice.created_at))
\*     [.where(UserChoice.processed == False)].limit(1), scalar_one_or_none():
\* what the database may give: no row, or a row no other row of the
\* selection is newer than (rows of one creation time come in any order).
LatestQuery(table, unprocessed_only) ==
    LET rows == {i \in 1..Len(table) : unprocessed_only => ~table[i].processed}
        first == {i \in rows : \A j \in rows :
                                  table[j].created_at <= table[i].created_at}
    IN IF rows = {} THEN {<<>>} ELSE {<<table[i]>> : i \in first}

\* UserChoiceDetail(...) of a row, or None
UserChoiceDetail(result) ==
    IF result = <<>> THEN <<>>
    ELSE << [id            |-> result[1].id,
             item_name     |-> result[1].item_name,
             item_location |-> result[1].item_location,
             processed     |-> result[1].processed,
             created_at    |-> result[1].created_at] >>

\* GET /user-choice/latest?unprocessed_only=...: one query, and the reply
\* built from its result.
GetLatestUserChoice ==
    /\ \E unprocessed_only \in BOOLEAN :
         \E result \in LatestQuery(user_choices, unprocessed_only) :
           reply' = [asked |-> TRUE, unprocessed_only |-> unprocessed_only,
                     detail |-> UserChoiceDetail(result)]
    /\ UNCHANGED <<storageVars, agentVars, now, user_choices, requests>>

\* PATCH /user-choice/{choice_id}/processed, up to the await of db.commit(),
\* or to the 404 when no row has the id (the id asked for is one of the
\* table, or the next one, which no row has yet).
MarkChoiceProcessed ==
    /\ Len(requests) < MaxRequests
    /\ \E choice_id \in 1..(Len(user_choices) + 1) :
         LET found == \E i \in 1..Len(user_choices) : user_choices[i].id = choice_id
         IN requests' = Append(requests,
                [op |-> "mark", pc |-> IF found THEN "commit" ELSE "done",
                 item_name |-> "", item_location |-> "None",
                 choice_id |-> choice_id, status |-> IF found THEN 0 ELSE 404])
    /\ UNCHANGED <<storageVars, agentVars, now, user_choices, reply>>

\* the commit of an update that has lost its where clause: every row marked
MarkCommit_every_row(h) ==
    /\ requests[h].op = "mark"
    /\ requests[h].pc = "commit"
    /\ user_choices' = [i \in 1..Len(user_choices) |->
           [user_choices[i] EXCEPT !.processed = TRUE]]
    /\ requests' = [requests EXCEPT ![h].pc = "done", ![h].status = 200]
    /\ UNCHANGED <<storageVars, agentVars, now, reply>>

\* user_choice.processed = True; await db.commit(); return the message
MarkCommit(h) ==
    /\ requests[h].op = "mark"
    /\ requests[h].pc = "commit"
    /\ user_choices' = [i \in 1..Len(user_choices) |->
           IF user_choices[i].id = requests[h].choice_id
           THEN [user_choices[i] EXCEPT !.processed = TRUE]
           ELSE user_choices[i]]
    /\ requests' = [requests EXCEPT ![h].pc = "done", ![h].status = 200]
    /\ UNCHANGED <<storageVars, agentVars, now, reply>>

\* open(path, "rb") of a file that holds b"hello"
OpenedFile == [content |-> <<104, 101, 108, 108, 111>>, pos |-> 0]

\* the photos the camera app writes
PhotoLow == <<97, 95, 108, 111, 119, 46, 106, 112, 103>>           \* "a_low.jpg"
PhotoHigh == <<98, 95, 104, 105, 103, 104, 46, 112, 110, 103>>     \* "b_high.png"
Filenames == {PhotoLow, PhotoHigh}

\* No agent process runs.
NoCoroutine ==
    [phase |-> "none", pc |-> "none", flags |-> <<>>, todo |-> <<>>,
     filename |-> <<>>, choice |-> <<>>, mark_id |-> 0, status |-> 0,
     marked |-> {}, result |-> "none"]

AgentIdle ==
    /\ program = "none"
    /\ directory = {}
    /\ main = NoCoroutine
    /\ tasks = <<>>
    /\ processed_files = {}
    /\ current_user_choice = <<>>
    /\ guidance_agent = <<>>
    /\ generated = [f \in Filenames |-> <<>>]

NoBase == [method |-> <<>>, path |-> <<>>, headers |-> <<>>, payload |-> <<>>,
           timestamp |-> 0]

Init ==
    /\ Constructed
    /\ calls = NoCalls
    /\ transport = <<>>
    /\ sgBase = NoBase
    /\ sgLog = {}
    /\ sgCount = 0
    /\ RouterIdle
    /\ stream = OpenedFile
    /\ AgentIdle

Next ==
    \/ \E c \in 1..MaxCalls : UploadFile(c)
    \/ \E c \in 1..MaxCalls : DeleteFile(c)
    \/ \E c \in 1..MaxCalls : Respond(c)
    \/ Tick

Spec == Init /\ [][Next]_vars

\* The router on its own: requests arrive and interleave at their awaits
\* while the clock moves on.
RouterNext ==
    \/ CreateUserChoice
    \/ \E h \in 1..Len(requests) : CreateCommit(h)
    \/ GetLatestUserChoice
    \/ MarkChoiceProcessed
    \/ \E h \in 1..Len(requests) : MarkCommit(h)
    \/ Tick

RouterSpec == Init /\ [][RouterNext]_vars

---------------------------------------------------------------------------
(* The signer on its own: a base request is fixed, and _sign_request is    *)
(* applied to it and to requests that differ from it in one argument.      *)
(* Every invocation is given a dict of its own.                            *)

Methods == {PUT, DELETE}
Paths == {<<47, 98, 117, 99, 107, 101, 116, 47, 107, 101, 121, 46, 116, 120, 116>>}  \* "/bucket/key.txt"
Payloads == {<<>>, <<104, 101, 108, 108, 111>>, <<104, 101, 108, 108, 112>>}  \* b"", b"hello", b"hellp"
BasePayloads == {<<>>, <<104, 101, 108, 108, 111>>}
Timestamps == {0, ClockStart}     \* 2024-01-01T00:00:00Z, 2024-01-01T23:59:59Z
NameOrder == <<HostName, <<66>>, <<97>>>>     \* "Host", "B", "a"
HeaderNames == {NameOrder[i] : i \in 1..Len(NameOrder)}
HeaderValues == {<<118>>, <<119>>}            \* "v", "w"
BaseValue == <<118>>

\* the dicts a base request may carry: Host alone, B and a, or all three,
\* each name with BaseValue
BaseHeaders ==
    {LET keys == SelectSeq(NameOrder, LAMBDA k : k \in S)
     IN [i \in 1..Len(keys) |-> <<keys[i], BaseValue>>] :
        S \in {{HostName}, HeaderNames \ {HostName}, HeaderNames}}

BaseRequests ==
    [method : Methods, path : Paths, headers : BaseHeaders,
     payload : BasePayloads, timestamp : Timestamps]

\* One invocation: its arguments as passed, the values the signer computes
\* on the way, the dict it returns, and the caller's dict after the call.
Invocation(a) ==
    LET returned == sign_request(client, a.method, a.path, a.headers, a.payload,
                                 a.timestamp)
    IN [method    |-> a.method,
        path      |-> a.path,
        headers   |-> a.headers,
        payload   |-> a.payload,
        timestamp |-> a.timestamp,
        canonical_headers |-> canonical_headers(a.headers),
        signed_headers    |-> signed_headers(a.headers),
        signature |-> signature(client, a.method, a.path, a.headers, a.payload,
                                a.timestamp),
        returned  |-> returned,
        headers_after |-> caller_headers(client, a.method, a.path, a.headers,
                                         a.payload, a.timestamp)]

\* The base request is signed first, the requests that differ from it after.
Invoke(a) ==
    /\ sgCount < MaxInvocations
    /\ sgCount = 0 => a = sgBase
    /\ sgLog' = sgLog \cup {Invocation(a)}
    /\ sgCount' = sgCount + 1
    /\ UNCHANGED <<settings, client, now, calls, transport, sgBase, stream,
                   routerVars, agentVars>>

\* the re-orderings of a dict of n items, the identity left out
Reorderings(n) ==
    {f \in [1..n -> 1..n] : (\A i, j \in 1..n : f[i] = f[j] => i = j)
                            /\ (\E i \in 1..n : f[i] # i)}

SignBase == Invoke(sgBase)

SignReordered ==
    \E f \in Reorderings(Len(sgBase.headers)) :
        Invoke([sgBase EXCEPT !.headers = [i \in 1..Len(@) |-> @[f[i]]]])

SignWithExtraHeader ==
    \E k \in HeaderNames, v \in HeaderValues :
        /\ ~DictHas(sgBase.headers, k)
        /\ Invoke([sgBase EXCEPT !.headers = Append(@, <<k, v>>)])

SignWithHeaderValue ==
    \E k \in HeaderNames, v \in HeaderValues :
        /\ DictHas(sgBase.headers, k)
        /\ DictGet(sgBase.headers, k) # v
        /\ Invoke([sgBase EXCEPT !.headers = DictSet(@, k, v)])

SignWithPayload ==
    \E p \in Payloads :
        /\ p # sgBase.payload
        /\ Invoke([sgBase EXCEPT !.payload = p])

SignOneSecondLater == Invoke([sgBase EXCEPT !.timestamp = @ + 1])

SignerInit ==
    /\ Constructed
    /\ calls = NoCalls
    /\ transport = <<>>
    /\ sgBase \in BaseRequests
    /\ sgLog = {}
    /\ sgCount = 0
    /\ RouterIdle
    /\ stream = OpenedFile
    /\ AgentIdle

SignerNext ==
    \/ SignBase
    \/ SignReordered
    \/ SignWithExtraHeader
    \/ SignWithHeaderValue
    \/ SignWithPayload
    \/ SignOneSecondLater
    \/ Tick

SignerSpec == SignerInit /\ [][SignerNext]_vars

---------------------------------------------------------------------------
(* What the properties below are stated with.                              *)

IsPrefix(p, s) == Len(p) <= Len(s) /\ SubSeq(s, 1, Len(p)) = p
IsSuffix(p, s) == Len(p) <= Len(s) /\ SubSeq(s, Len(s) - Len(p) + 1, Len(s)) = p

\* the indices of the requests call c handed to the transport
RequestsOf(c) == {i \in 1..Len(transport) : transport[i].call = c}

\* a call that was made with a key that is not empty
Keyed(c) == calls[c].pc # "idle" /\ calls[c].key # <<>>

Is2xx(outcome) == outcome.type = "response" /\ outcome.status \in 200..299

\* the parts of list, a text joined with the one-character separator sep
Split(list, sep) ==
    LET cuts == <<0>> \o SelectSeq([i \in 1..Len(list) |-> IF list[i] = sep[1] THEN i ELSE 0],
                                   LAMBDA i : i # 0) \o <<Len(list) + 1>>
    IN {SubSeq(list, cuts[n] + 1, cuts[n + 1] - 1) : n \in 1..(Len(cuts) - 1)}

\* two signer invocations that agree on every argument but the headers
SameButHeaders(e1, e2) ==
    /\ e1.method = e2.method
    /\ e1.path = e2.path
    /\ e1.payload = e2.payload
    /\ e1.timestamp = e2.timestamp

\* two dicts with the same items, in any order
SameItems(h1, h2) ==
    /\ Len(h1) = Len(h2)
    /\ {h1[i] : i \in 1..Len(h1)} = {h2[i] : i \in 1..Len(h2)}

\* dict h2 is dict h1 with one more item, of name k
OneMoreHeader(h1, h2, k) ==
    /\ ~DictHas(h1, k)
    /\ DictHas(h2, k)
    /\ Len(h2) = Len(h1) + 1
    /\ \A i \in 1..Len(h1) : \E j \in 1..Len(h2) : h2[j] = h1[i]

\* dicts h1 and h2 have the same names in the same order, and differ in the
\* value of one of them
OneValueChanged(h1, h2) ==
    /\ DictKeys(h1) = DictKeys(h2)
    /\ Cardinality({i \in 1..Len(h1) : h1[i][2] # h2[i][2]}) = 1

---------------------------------------------------------------------------
(* The client's promises, under Spec.                                      *)

\* C1: a call of upload_file or delete_file with an empty key ends with the
\* validation error (ValueError), and has by then neither invoked the signer
\* nor handed any request to the transport.
C1_EmptyKeyRejectedBeforeAnyWork ==
    \A c \in 1..MaxCalls :
        (calls[c].pc # "idle" /\ calls[c].key = <<>>) =>
            /\ calls[c].pc = "done"
            /\ calls[c].result = ValueError
            /\ calls[c].signed = 0
            /\ RequestsOf(c) = {}

\* an upload and a delete were both refused for their empty key, and the
\* transport was never invoked
C1_Witness ==
    /\ \E c \in 1..MaxCalls : calls[c].op = "upload" /\ calls[c].result = ValueError
    /\ \E c \in 1..MaxCalls : calls[c].op = "delete" /\ calls[c].result = ValueError
    /\ transport = <<>>

\* C2: an upload with a non-empty key whose request got a status outside 2xx,
\* or no response at all, ends with the wrapping exception, which carries the
\* underlying error as its cause; it does not return a URL.
C2_UploadFailurePropagates ==
    \A c \in 1..MaxCalls :
        (Keyed(c) /\ calls[c].op = "upload" /\ calls[c].pc = "done"
            /\ ~Is2xx(calls[c].outcome)) =>
            /\ calls[c].result.kind = "Exception"
            /\ IsPrefix(UploadFailed, calls[c].result.value)
            /\ calls[c].result.cause.type # "none"
            /\ calls[c].result.cause.status = calls[c].outcome.status
            /\ (calls[c].outcome.type = "response"
                    => calls[c].result.cause.type = "HTTPStatusError")
            /\ (calls[c].outcome.type # "response"
                    => calls[c].result.cause = calls[c].outcome)

\* one upload failed on a 403, another on a failure of the transport itself
C2_Witness ==
    /\ \E c \in 1..MaxCalls :
           /\ calls[c].op = "upload" /\ calls[c].outcome.status = 403
           /\ calls[c].result.kind = "Exception"
    /\ \E c \in 1..MaxCalls :
           /\ calls[c].op = "upload" /\ calls[c].outcome.type = "ConnectTimeout"
           /\ calls[c].result.kind = "Exception"

\* C3: an upload with a non-empty key whose PUT got a 2xx status returns the
\* public base URL of the settings, "/", and the key; with the base
\* "https://cdn.example.com" and the key "photos/a.jpg" that is
\* "https://cdn.example.com/photos/a.jpg".
C3_UploadReturnsPublicUrl ==
    \A c \in 1..MaxCalls :
        (Keyed(c) /\ calls[c].op = "upload" /\ calls[c].pc = "done"
            /\ Is2xx(calls[c].outcome)) =>
            /\ calls[c].result.kind = "return"
            /\ calls[c].result.value = settings.r2_public_url \o Slash \o calls[c].key
            /\ (calls[c].key = <<112, 104, 111, 116, 111, 115, 47, 97, 46, 106, 112, 103>>
                    => calls[c].result.value =
                           <<104, 116, 116, 112, 115, 58, 47, 47, 99, 100, 110, 46,
                             101, 120, 97, 109, 112, 108, 101, 46, 99, 111, 109, 47,
                             112, 104, 111, 116, 111, 115, 47, 97, 46, 106, 112, 103>>)

\* an upload of "photos/a.jpg" returned after a 200, another after a 204
C3_Witness ==
    /\ \E c \in 1..MaxCalls :
           /\ calls[c].op = "upload" /\ calls[c].outcome.status = 200
           /\ calls[c].result.kind = "return"
    /\ \E c \in 1..MaxCalls :
           /\ calls[c].op = "upload" /\ calls[c].outcome.status = 204
           /\ calls[c].result.kind = "return"

\* C4: a call with a non-empty key has handed exactly one request to the
\* transport from the moment it awaits the answer, and still exactly one
\* when it has ended, whatever the answer was.
C4_ExactlyOneRequest ==
    \A c \in 1..MaxCalls :
        Keyed(c) => Cardinality(RequestsOf(c)) = 1

\* an upload ended on a 403 and a delete on a transport failure, with one
\* request each
C4_Witness ==
    /\ \E c \in 1..MaxCalls :
           /\ calls[c].op = "upload" /\ calls[c].pc = "done"
           /\ calls[c].outcome.status = 403
    /\ \E c \in 1..MaxCalls :
           /\ calls[c].op = "delete" /\ calls[c].pc = "done"
           /\ calls[c].outcome.type = "ConnectTimeout"
    /\ Len(transport) = 2

\* C5: in every request sent, the x-amz-date header is the instant the call
\* read from the clock, the string to sign starts with the algorithm, that
\* same header value and the credential scope, and the credential scope is
\* the date part of that header value with "/auto/s3/aws4_request".
C5_OneInstantPerCall ==
    \A i \in 1..Len(transport) :
        LET amz == DictGet(transport[i].headers, XAmzDateName)
            sg == calls[transport[i].call].signing
            scope == SubSeq(amz, 1, 8) \o Slash \o Region \o Slash \o Service
                         \o Slash \o Aws4Request
        IN /\ amz = StrftimeAmz(sg.timestamp)
           /\ sg.credential_scope = scope
           /\ IsPrefix(AlgorithmName \o NL \o amz \o NL \o scope \o NL,
                       sg.string_to_sign)

\* an upload was sent before midnight and a delete after it
C5_Witness ==
    \E i, j \in 1..Len(transport) :
        /\ transport[i].method = PUT
        /\ transport[j].method = DELETE
        /\ calls[transport[i].call].signing.timestamp = ClockStart
        /\ calls[transport[j].call].signing.timestamp = ClockStart + 1

\* C10: every DELETE request sent carries the SHA-256 of no bytes in its
\* x-amz-content-sha256 header, and was signed with that same hash as the
\* last field of its canonical request.
C10_DeleteSignsEmptyPayload ==
    \A i \in 1..Len(transport) :
        transport[i].method = DELETE =>
            LET sg == calls[transport[i].call].signing
            IN /\ DictGet(transport[i].headers, XAmzContentSha256Name) = Hex(Sha256(<<>>))
               /\ sg.payload_hash = Hex(Sha256(<<>>))
               /\ IsSuffix(NL \o Hex(Sha256(<<>>)), sg.canonical_request)

\* two DELETE requests were sent
C10_Witness ==
    \E i, j \in 1..Len(transport) :
        /\ i # j
        /\ transport[i].method = DELETE
        /\ transport[j].method = DELETE

---------------------------------------------------------------------------
(* The signer's promises, under SignerSpec.                                *)

\* the Authorization value an invocation put in the dict it returned
AuthorizationOf(e) == DictGet(e.returned, AuthorizationName)

C7_HeaderOrderIrrelevant ==
    \A e1, e2 \in sgLog :
        (SameButHeaders(e1, e2) /\ SameItems(e1.headers, e2.headers)) =>
            /\ e1.canonical_headers = e2.canonical_headers
            /\ e1.signature = e2.signature

\* three headers were signed in three different orders, with one signature
C7_Witness ==
    \E e1, e2, e3 \in sgLog :
        /\ Len(e1.headers) = 3
        /\ SameItems(e1.headers, e2.headers) /\ SameItems(e1.headers, e3.headers)
        /\ e1.headers # e2.headers /\ e1.headers # e3.headers
        /\ e2.headers # e3.headers
        /\ e1.signature = e2.signature /\ e1.signature = e3.signature

C9_SignatureSensitive ==
    \A e1, e2 \in sgLog :
        /\ (SameButHeaders([e1 EXCEPT !.payload = e2.payload], e2)
                /\ e1.headers = e2.headers /\ e1.payload # e2.payload)
               => e1.signature # e2.signature
        /\ (SameButHeaders(e1, e2) /\ OneValueChanged(e1.headers, e2.headers))
               => e1.signature # e2.signature
        /\ (SameButHeaders([e1 EXCEPT !.timestamp = e2.timestamp], e2)
                /\ e1.headers = e2.headers /\ e2.timestamp = e1.timestamp + 1)
               => e1.signature # e2.signature

\* the base request was signed, and then with another payload, with another
\* value of one header, and one second later: four signatures
C9_Witness ==
    \E e, p, h, t \in sgLog :
        /\ e.method = p.method /\ e.headers = p.headers
        /\ e.timestamp = p.timestamp /\ e.payload # p.payload
        /\ SameButHeaders(e, h) /\ OneValueChanged(e.headers, h.headers)
        /\ e.headers = t.headers /\ e.payload = t.payload
        /\ t.timestamp = e.timestamp + 1
        /\ Cardinality({e.signature, p.signature, h.signature, t.signature}) = 4

---------------------------------------------------------------------------
(* What the requests of the client are made of, under Spec.                *)

\* the first place in s where the text p starts (0 when there is none)
IndexOf(p, s) ==
    LET at == {i \in 1..(Len(s) - Len(p) + 1) : SubSeq(s, i, i + Len(p) - 1) = p}
    IN IF at = {} THEN 0 ELSE CHOOSE i \in at : \A j \in at : i <= j

\* the text of s between the first p and the first q that follows it
Between(p, q, s) ==
    LET a == IndexOf(p, s) + Len(p)
        rest == SubSeq(s, a, Len(s))
    IN SubSeq(rest, 1, IndexOf(q, rest) - 1)

\* the SignedHeaders field of an Authorization value
SignedHeadersField(auth) == Between(SignedHeadersEq, SignatureEq, auth)

\* C11: every PUT request handed to the transport carries the headers Host,
\* Content-Type, x-amz-date and x-amz-content-sha256 (the last one the hex
\* SHA-256 of the body sent), and the SignedHeaders list of its Authorization
\* value names all four in lower case.
C11_UploadHeadersAllSigned ==
    \A i \in 1..Len(transport) :
        transport[i].method = PUT =>
            LET h == transport[i].headers
                list == Split(SignedHeadersField(DictGet(h, AuthorizationName)), Semi)
            IN /\ \A k \in {HostName, ContentTypeName, XAmzDateName,
                            XAmzContentSha256Name} :
                      DictHas(h, k) /\ Lower(k) \in list
               /\ DictGet(h, XAmzContentSha256Name) = Hex(Sha256(transport[i].content))

\* an upload of b"hello" was sent, with four names in its SignedHeaders list
C11_Witness ==
    \E i \in 1..Len(transport) :
        /\ transport[i].method = PUT
        /\ transport[i].content # <<>>
        /\ Cardinality(Split(SignedHeadersField(
               DictGet(transport[i].headers, AuthorizationName)), Semi)) = 4

\* C12: a delete with a non-empty key that got a status outside 2xx (404
\* like any other) or no response at all has ended with the wrapping
\* exception; one that got a 2xx status has returned, with no value.
C12_DeleteFailsUnless2xx ==
    \A c \in 1..MaxCalls :
        (Keyed(c) /\ calls[c].op = "delete" /\ calls[c].pc = "done") =>
            IF Is2xx(calls[c].outcome)
            THEN calls[c].result = [kind |-> "return", value |-> <<>>,
                                    cause |-> NoOutcome]
            ELSE /\ calls[c].result.kind = "Exception"
                 /\ IsPrefix(DeleteFailed, calls[c].result.value)
                 /\ calls[c].result.cause.type # "none"
                 /\ calls[c].result.cause.status = calls[c].outcome.status

\* one delete failed on a 404, another returned after a 204
C12_Witness ==
    /\ \E c \in 1..MaxCalls :
           /\ calls[c].op = "delete" /\ calls[c].outcome.status = 404
           /\ calls[c].result.kind = "Exception"
    /\ \E c \in 1..MaxCalls :
           /\ calls[c].op = "delete" /\ calls[c].outcome.status = 204
           /\ calls[c].result.kind = "return"

\* the request a call makes, computed from nothing but the client, the
\* call's own arguments and its own reading of the clock
OwnRequest(c) ==
    LET call == calls[c]
        ts == call.signing.timestamp
        path == Slash \o client.bucket_name \o Slash \o call.key
        host == <<HostName, client.account_id \o R2Domain>>
        date == <<XAmzDateName, StrftimeAmz(ts)>>
        body == IF call.op = "upload" THEN call.file_data ELSE <<>>
        sha == <<XAmzContentSha256Name, Hex(Sha256(body))>>
        headers == IF call.op = "upload"
                   THEN <<host, <<ContentTypeName, call.content_type>>, date, sha>>
                   ELSE <<host, date, sha>>
        method == IF call.op = "upload" THEN PUT ELSE DELETE
    IN [call |-> c, method |-> method,
        url |-> client.endpoint_url \o path,
        headers |-> Append(headers,
            <<AuthorizationName,
              authorization(client, method, path, headers, body, ts)>>),
        content |-> body]

\* C13: whatever calls were made and however they interleaved, the client
\* holds the fields it was constructed with, and every request in the
\* transport is the one its call makes from its own arguments and its own
\* clock reading.
C13_CallsShareNothing ==
    /\ client = [access_key_id     |-> LoadedSettings.r2_access_key_id,
                 secret_access_key |-> LoadedSettings.r2_secret_access_key,
                 account_id        |-> LoadedSettings.cloudflare_account_id,
                 bucket_name       |-> LoadedSettings.r2_bucket_name,
                 endpoint_url      |-> Https \o LoadedSettings.cloudflare_account_id
                                           \o R2Domain]
    /\ \A i \in 1..Len(transport) : transport[i] = OwnRequest(transport[i].call)

\* an upload and a delete overlapped: the second call was made a second
\* after the first, while the first was awaiting its answer, and ended first
C13_Witness ==
    /\ calls[1].pc = "awaiting"
    /\ calls[2].pc = "done"
    /\ calls[1].op # calls[2].op
    /\ calls[1].key # <<>> /\ calls[2].key # <<>>
    /\ calls[2].signing.timestamp = calls[1].signing.timestamp + 1

---------------------------------------------------------------------------
(* The signer against the documented algorithm, under SignerSpec.          *)

\* the parts of text, in order, that the one-character separator sep parts
Parts(text, sep) ==
    LET cuts == <<0>> \o SelectSeq([i \in 1..Len(text) |-> IF text[i] = sep[1] THEN i ELSE 0],
                                   LAMBDA i : i # 0) \o <<Len(text) + 1>>
    IN [n \in 1..(Len(cuts) - 1) |-> SubSeq(text, cuts[n] + 1, cuts[n + 1] - 1)]

\* the name of a canonical header line: what stands before its first colon
LineName(line) == Parts(line, Colon)[1]

\* The documented algorithm, step by step, on the inputs of an invocation.
\* Step 3: one line `lowercased-name:value\n` per header, the headers sorted
\* by lower-cased name.
RECURSIVE DocSortedByLowerName(_)
DocSortedByLowerName(items) ==
    IF items = <<>> THEN <<>>
    ELSE LET rest == DocSortedByLowerName(Tail(items))
             x == Head(items)
             n == Cardinality({i \in 1..Len(rest) :
                                  StrLess(Lower(rest[i][1]), Lower(x[1]))})
         IN SubSeq(rest, 1, n) \o <<x>> \o SubSeq(rest, n + 1, Len(rest))

RECURSIVE DocConcat(_)
DocConcat(texts) == IF texts = <<>> THEN <<>> ELSE Head(texts) \o DocConcat(Tail(texts))

DocCanonicalHeaders(headers) ==
    LET items == DocSortedByLowerName(headers)
    IN DocConcat([i \in 1..Len(items) |-> Lower(items[i][1]) \o Colon \o items[i][2] \o NL])

\* Step 4: the lower-cased names, sorted, joined with ";".
DocSignedHeaders(headers) ==
    LET items == DocSortedByLowerName(headers)
    IN Join(Semi, [i \in 1..Len(items) |-> Lower(items[i][1])])

\* Steps 1, 2, 5 and 6: the canonical request.
DocCanonicalRequest(method, path, headers, payload) ==
    Join(NL, <<method, Quote(path), <<>>, DocCanonicalHeaders(headers),
               DocSignedHeaders(headers), Hex(Sha256(payload))>>)

\* Step 7: the string to sign.
DocStringToSign(method, path, headers, payload, timestamp) ==
    Join(NL, <<AlgorithmName, StrftimeAmz(timestamp),
               Join(Slash, <<StrftimeDate(timestamp), Region, Service, Aws4Request>>),
               Hex(Sha256(Utf8Encode(DocCanonicalRequest(method, path, headers, payload))))>>)

\* Step 8: the key chain, each output the key of the next step.
DocSigningKey(secret_key, date) ==
    LET kDate == HmacSha256(Utf8Encode(Aws4 \o secret_key), Utf8Encode(date))
        kRegion == HmacSha256(kDate, <<97, 117, 116, 111>>)         \* "auto"
        kService == HmacSha256(kRegion, <<115, 51>>)                \* "s3"
    IN HmacSha256(kService,
           <<97, 119, 115, 52, 95, 114, 101, 113, 117, 101, 115, 116>>)  \* "aws4_request"

\* Step 9: the signature.
DocSignature(secret_key, method, path, headers, payload, timestamp) ==
    Hex(HmacSha256(DocSigningKey(secret_key, StrftimeDate(timestamp)),
            Utf8Encode(DocStringToSign(method, path, headers, payload, timestamp))))

\* C14: the signature every invocation computed is the one the documented
\* algorithm gives on the same method, path, headers, payload, timestamp and
\* secret key.
C14_SignatureAsDocumented ==
    \A e \in sgLog :
        e.signature = DocSignature(client.secret_access_key, e.method, e.path,
                                   e.headers, e.payload, e.timestamp)

\* C16: the canonical headers block of every invocation ends with a newline,
\* and what stands before it is one non-empty line `lowercased-name:value`
\* per header of the dict, the lines in the lexicographic order of their
\* lower-cased names, which is the order of the signed-headers list.
C16_CanonicalHeadersSortedByLowerName ==
    \A e \in sgLog :
        LET block == e.canonical_headers
            lines == Parts(SubSeq(block, 1, Len(block) - 1), NL)
            names == Parts(e.signed_headers, Semi)
        IN /\ block # <<>>
           /\ block[Len(block)] = NL[1]
           /\ Len(lines) = Len(e.headers)
           /\ \A i \in 1..Len(lines) : lines[i] # <<>>
           /\ \A i \in 1..Len(e.headers) :
                  \E j \in 1..Len(lines) :
                      lines[j] = Lower(e.headers[i][1]) \o Colon \o e.headers[i][2]
           /\ \A i, j \in 1..Len(lines) :
                  i < j => StrLess(LineName(lines[i]), LineName(lines[j]))
           /\ Len(names) = Len(lines)
           /\ \A i \in 1..Len(lines) : LineName(lines[i]) = names[i]

---------------------------------------------------------------------------
(* The layout of what the client's requests were signed with, under Spec.  *)

\* the headers of a request that were given to the signer: all but the
\* Authorization item the signer added
SignedItems(r) == SelectSeq(r.headers, LAMBDA item : item[1] # AuthorizationName)

\* C17: the canonical request of every request sent is, line by line: the
\* method, the percent-encoded path, an empty line for the query string, one
\* line per signed header, one blank line, the signed-headers list, and the
\* hex SHA-256 of the body; nothing follows.
C17_CanonicalRequestLayout ==
    \A i \in 1..Len(transport) :
        LET r == transport[i]
            call == calls[r.call]
            lines == Parts(call.signing.canonical_request, NL)
            items == SignedItems(r)
            n == Len(items)
        IN /\ Len(lines) = n + 6
           /\ lines[1] = r.method
           /\ lines[2] = Quote(Slash \o client.bucket_name \o Slash \o call.key)
           /\ lines[3] = <<>>
           /\ \A j \in 1..n : lines[3 + j] # <<>>
           /\ {lines[3 + j] : j \in 1..n}
                  = {Lower(items[j][1]) \o Colon \o items[j][2] : j \in 1..n}
           /\ lines[n + 4] = <<>>
           /\ lines[n + 5] = SignedHeadersField(DictGet(r.headers, AuthorizationName))
           /\ lines[n + 6] = Hex(Sha256(r.content))

\* a PUT signed over four headers and a DELETE signed over three were sent
C17_Witness ==
    \E i, j \in 1..Len(transport) :
        /\ transport[i].method = PUT /\ Len(SignedItems(transport[i])) = 4
        /\ transport[i].content # <<>>
        /\ transport[j].method = DELETE /\ Len(SignedItems(transport[j])) = 3

\* a text of the form YYYYMMDDTHHMMSSZ
IsBasicTimestamp(t) ==
    /\ Len(t) = 16
    /\ \A i \in (1..8) \cup (10..15) : t[i] \in 48..57
    /\ t[9] = 84
    /\ t[16] = 90

\* where the first digest of a text starts (a digest holds its input as it
\* is, newlines included, so lines are counted in the text before it)
DigestAt(s) == CHOOSE i \in 1..Len(s) : s[i] < 0 /\ \A j \in 1..(i - 1) : s[j] >= 0

\* C18: the string to sign of every request sent is four lines: the
\* algorithm name AWS4-HMAC-SHA256, the call's instant as YYYYMMDDTHHMMSSZ,
\* the credential scope, and the hex SHA-256 of the canonical request; the
\* credential scope is the first eight characters of the second line
\* followed by "/auto/s3/aws4_request".
C18_StringToSignLayout ==
    \A i \in 1..Len(transport) :
        LET sg == calls[transport[i].call].signing
            at == DigestAt(sg.string_to_sign)
            lines == Parts(SubSeq(sg.string_to_sign, 1, at - 1), NL)
            last == SubSeq(sg.string_to_sign, at, Len(sg.string_to_sign))
        IN /\ Len(lines) = 4
           /\ lines[1] = <<65, 87, 83, 52, 45, 72, 77, 65, 67, 45, 83, 72, 65, 50, 53, 54>>
           /\ IsBasicTimestamp(lines[2])
           /\ lines[2] = DictGet(transport[i].headers, XAmzDateName)
           /\ lines[2] = StrftimeAmz(sg.timestamp)
           /\ lines[3] = sg.credential_scope
           /\ lines[3] = SubSeq(lines[2], 1, 8)
                  \o <<47, 97, 117, 116, 111, 47, 115, 51, 47,
                       97, 119, 115, 52, 95, 114, 101, 113, 117, 101, 115, 116>>
           /\ lines[4] = <<>>
           /\ last = Hex(Sha256(Utf8Encode(sg.canonical_request)))

\* requests were signed on both sides of midnight: two scopes, two dates
C18_Witness ==
    \E i, j \in 1..Len(transport) :
        /\ calls[transport[i].call].signing.credential_scope
               # calls[transport[j].call].signing.credential_scope
        /\ transport[i].method = PUT

\* the Signature field of an Authorization value: all that follows
\* ", Signature="
SignatureField(auth) ==
    SubSeq(auth, IndexOf(SignatureEq, auth) + Len(SignatureEq), Len(auth))

\* C19: the Signature of every request sent is the hex HMAC of its string to
\* sign under the key of the chain HMAC("AWS4" + secret key, YYYYMMDD), then
\* "auto", then "s3", then "aws4_request", with YYYYMMDD the date that opens
\* the credential scope of that request.
C19_SignatureFromKeyChain ==
    \A i \in 1..Len(transport) :
        LET sg == calls[transport[i].call].signing
            date == SubSeq(sg.credential_scope, 1, 8)
        IN SignatureField(DictGet(transport[i].headers, AuthorizationName))
               = Hex(HmacSha256(DocSigningKey(client.secret_access_key, date),
                                sg.string_to_sign))

\* a request was signed with the key of 1 January and another with the key
\* of 2 January
C19_Witness ==
    \E i, j \in 1..Len(transport) :
        /\ SubSeq(calls[transport[i].call].signing.credential_scope, 1, 8)
               = <<50, 48, 50, 52, 48, 49, 48, 49>>
        /\ SubSeq(calls[transport[j].call].signing.credential_scope, 1, 8)
               = <<50, 48, 50, 52, 48, 49, 48, 50>>
        /\ SignatureField(DictGet(transport[i].headers, AuthorizationName))
               # SignatureField(DictGet(transport[j].headers, AuthorizationName))

\* C20: the Authorization value of every request sent is
\* "AWS4-HMAC-SHA256 Credential=", the client's access key id, "/", the
\* credential scope that is the third line of the request's string to sign,
\* ", SignedHeaders=", the list that is the last line but one of its
\* canonical request, ", Signature=", and one hex digest, which is an HMAC
\* of that same string to sign.
C20_AuthorizationLayout ==
    \A i \in 1..Len(transport) :
        LET r == transport[i]
            sg == calls[r.call].signing
            auth == DictGet(r.headers, AuthorizationName)
            sts == Parts(SubSeq(sg.string_to_sign, 1,
                                DigestAt(sg.string_to_sign) - 1), NL)
            creq == Parts(sg.canonical_request, NL)
            sig == SignatureField(auth)
        IN /\ auth = <<65, 87, 83, 52, 45, 72, 77, 65, 67, 45, 83, 72, 65, 50, 53, 54>>
                         \o <<32, 67, 114, 101, 100, 101, 110, 116, 105, 97, 108, 61>>
                         \o client.access_key_id \o <<47>> \o sts[3]
                         \o <<44, 32, 83, 105, 103, 110, 101, 100, 72, 101, 97,
                              100, 101, 114, 115, 61>>
                         \o creq[Len(SignedItems(r)) + 5]
                         \o <<44, 32, 83, 105, 103, 110, 97, 116, 117, 114, 101, 61>>
                         \o sig
           /\ SubSeq(sig, 1, 2) = <<-5, -2>>
           /\ IsSuffix(<<-3>> \o sg.string_to_sign \o <<-4, -4>>, sig)

\* a PUT and a DELETE were sent a day apart: their Authorization values
\* differ in the scope and in the SignedHeaders list
C20_Witness ==
    \E i, j \in 1..Len(transport) :
        /\ transport[i].method = PUT
        /\ transport[j].method = DELETE
        /\ calls[transport[i].call].signing.credential_scope
               # calls[transport[j].call].signing.credential_scope
        /\ SignedHeadersField(DictGet(transport[i].headers, AuthorizationName))
               # SignedHeadersField(DictGet(transport[j].headers, AuthorizationName))

---------------------------------------------------------------------------
(* The router's promise, under RouterSpec.                                 *)

\* the unprocessed choices of the table
Unprocessed == {i \in 1..Len(user_choices) : ~user_choices[i].processed}

\* the answer r is right for the table as it stands: null when the table
\* holds no unprocessed choice, and otherwise a choice of the table with its
\* processed flag not set, which no unprocessed choice was created after
AnswersLatestUnprocessed(r) ==
    IF Unprocessed = {} THEN r.detail = <<>>
    ELSE /\ Len(r.detail) = 1
         /\ r.detail[1].processed = FALSE
         /\ \E i \in Unprocessed :
                /\ user_choices[i].id = r.detail[1].id
                /\ user_choices[i].item_name = r.detail[1].item_name
                /\ user_choices[i].item_location = r.detail[1].item_location
                /\ user_choices[i].created_at = r.detail[1].created_at
                /\ \A j \in Unprocessed :
                       user_choices[j].created_at <= user_choices[i].created_at

\* C15: every answer of GET /user-choice/latest with unprocessed_only true,
\* after whatever creates and mark-processed came before it, is null when
\* the table holds no unprocessed choice, and otherwise the unprocessed
\* choice created last; its processed flag is never set.
C15_LatestIsUnprocessed ==
    [][(GetLatestUserChoice /\ reply'.unprocessed_only)
           => AnswersLatestUnprocessed(reply')]_vars

\* the newest choice of the table is marked processed, and the answer just
\* given is the unprocessed choice created before it
C15_Witness ==
    /\ reply.asked /\ reply.unprocessed_only
    /\ Len(reply.detail) = 1
    /\ reply.detail[1].id \in {user_choices[i].id : i \in Unprocessed}
    /\ \E i \in 1..Len(user_choices) :
           /\ user_choices[i].processed
           /\ user_choices[i].created_at > reply.detail[1].created_at

---------------------------------------------------------------------------
(* What the signer does to its arguments, under SignerSpec.                *)

---------------------------------------------------------------------------
(* More of the client's promises, under Spec.                              *)

\* the date in the Credential field of an Authorization value:
\* Credential=<access key id>/<date>/auto/s3/aws4_request
ScopeDate(auth) == Parts(Between(CredentialEq, SignedHeadersEq, auth), Slash)[2]

\* the date the first key of the chain was derived from, read off the
\* Signature field: hex HMAC(HMAC(HMAC(HMAC(HMAC("AWS4" + secret, date), ...
KeyDate(auth, secret_key) ==
    LET sig == SignatureField(auth)
        at == 6 + Len(Aws4 \o secret_key) + 1
    IN SubSeq(sig, at + 1, at + 8)

\* C22: of every request sent through the client, the date of the
\* credential scope and the date the signing key was derived from are the
\* date of that request's own timestamp (its x-amz-date, the clock reading
\* of its call), whatever requests were sent before it and on whatever date.
C22_ScopeAndKeyOfOwnDate ==
    \A i \in 1..Len(transport) :
        LET auth == DictGet(transport[i].headers, AuthorizationName)
            own == SubSeq(DictGet(transport[i].headers, XAmzDateName), 1, 8)
        IN /\ own = StrftimeDate(calls[transport[i].call].signing.timestamp)
           /\ ScopeDate(auth) = own
           /\ KeyDate(auth, client.secret_access_key) = own

\* a request of 1 January was followed by a request of 2 January, each
\* with the scope of its own date
C22_Witness ==
    \E i, j \in 1..Len(transport) :
        /\ i < j
        /\ ScopeDate(DictGet(transport[i].headers, AuthorizationName))
               = <<50, 48, 50, 52, 48, 49, 48, 49>>
        /\ ScopeDate(DictGet(transport[j].headers, AuthorizationName))
               = <<50, 48, 50, 52, 48, 49, 48, 50>>


\* the host of an https URL: what stands between "https://" and the next "/"
UrlHost(url) == Parts(SubSeq(url, Len(Https) + 1, Len(url)), Slash)[1]

\* the first line of a canonical request: the method that was signed
SignedMethod(cr) == SubSeq(cr, 1, IndexOf(NL, cr) - 1)

\* C24: every request sent goes to
\* https://<account id>.r2.cloudflarestorage.com/<bucket>/<key> with the
\* account id and the bucket of the client and the key of the call; its Host
\* header is the host of that URL; and it is sent with the method that was
\* signed, PUT for an upload and DELETE for a delete.
C24_UrlHostAndMethod ==
    \A i \in 1..Len(transport) :
        LET r == transport[i]
            call == calls[r.call]
        IN /\ r.url = Https \o client.account_id \o R2Domain \o Slash
                        \o client.bucket_name \o Slash \o call.key
           /\ DictGet(r.headers, HostName) = UrlHost(r.url)
           /\ r.method = (IF call.op = "upload" THEN PUT ELSE DELETE)
           /\ r.method = SignedMethod(call.signing.canonical_request)

\* an upload and a delete were both sent
C24_Witness ==
    \E i, j \in 1..Len(transport) :
        /\ transport[i].method = PUT /\ transport[j].method = DELETE
        /\ UrlHost(transport[i].url) = client.account_id \o R2Domain
        /\ SignedMethod(calls[transport[j].call].signing.canonical_request) = DELETE

\* where the last hex digest of a text begins (the header lines of a
\* canonical request hold a digest too)
LastDigestAt(s) == CHOOSE i \in 1..Len(s) : s[i] = -5 /\ \A j \in (i + 1)..Len(s) : s[j] # -5

\* the last line of a canonical request: its payload hash
PayloadHashField(cr) == SubSeq(cr, LastDigestAt(cr), Len(cr))

\* C27: in every upload request the x-amz-content-sha256 header, the last
\* line of the canonical request that was signed, and the hex SHA-256 of the
\* body handed to the transport are one value.
C27_OnePayloadHash ==
    \A i \in 1..Len(transport) :
        LET r == transport[i]
            cr == calls[r.call].signing.canonical_request
        IN r.method = PUT =>
              /\ cr[LastDigestAt(cr) - 1] = NL[1]
              /\ DictGet(r.headers, XAmzContentSha256Name) = PayloadHashField(cr)
              /\ PayloadHashField(cr) = Hex(Sha256(r.content))

\* an upload of b"hello" and an upload of b"" were sent, with different hashes
C27_Witness ==
    \E i, j \in 1..Len(transport) :
        /\ transport[i].method = PUT /\ transport[j].method = PUT
        /\ transport[i].content # <<>> /\ transport[j].content = <<>>
        /\ DictGet(transport[i].headers, XAmzContentSha256Name)
              # DictGet(transport[j].headers, XAmzContentSha256Name)

---------------------------------------------------------------------------
(* PATCH /user-choice/{id}/processed, under RouterSpec.                    *)

\* the mark-processed requests a step takes up or carries on
MarkMoved(h) ==
    /\ requests'[h].op = "mark"
    /\ \/ h > Len(requests)
       \/ requests[h].pc # requests'[h].pc

\* C26: a mark-processed request for an id no stored choice has is answered
\* 404 with every stored choice left as it was; one for the id of a stored
\* choice is not answered 404, and when it is answered, that choice is
\* processed and every other choice, and every other field of that choice,
\* is as it was before.
C26_MarkProcessedTouchesOneChoice ==
    [][\A h \in 1..Len(requests') :
          MarkMoved(h) =>
             LET id == requests'[h].choice_id
                 stored == {i \in 1..Len(user_choices) : user_choices[i].id = id}
             IN IF stored = {}
                THEN /\ requests'[h].pc = "done"
                     /\ requests'[h].status = 404
                     /\ user_choices' = user_choices
                ELSE /\ requests'[h].status # 404
                     /\ requests'[h].pc = "done" =>
                           /\ requests'[h].status = 200
                           /\ Len(user_choices') = Len(user_choices)
                           /\ \A i \in 1..Len(user_choices) :
                                 user_choices'[i] =
                                    IF i \in stored
                                    THEN [user_choices[i] EXCEPT !.processed = TRUE]
                                    ELSE user_choices[i]]_vars

\* one mark-processed request was answered 404 and another 200, and the
\* stored choice is processed
C26_Witness ==
    /\ \E h \in 1..Len(requests) :
          requests[h].op = "mark" /\ requests[h].pc = "done" /\ requests[h].status = 404
    /\ \E h \in 1..Len(requests) :
          requests[h].op = "mark" /\ requests[h].pc = "done" /\ requests[h].status = 200
    /\ \E i \in 1..Len(user_choices) : user_choices[i].processed
---------------------------------------------------------------------------
(* upload_file given a file object, under StreamSpec.                      *)

\* The caller reads a byte of the file before it hands the file over.
CallerReads ==
    /\ stream.pos < Len(stream.content)
    /\ stream' = [stream EXCEPT !.pos = @ + 1]
    /\ UNCHANGED <<settings, client, now, calls, transport, sgBase, sgLog,
                   sgCount, routerVars, agentVars>>

\* A caller uploads the file object it holds.
UploadStream(c) ==
    /\ NextCall(c)
    /\ \E key \in Keys, content_type \in ContentTypes :
           upload_file(c, TheStream, key, content_type)
    /\ UNCHANGED <<settings, client, now, sgBase, sgLog, sgCount, routerVars,
                   agentVars>>

StreamNext ==
    \/ CallerReads
    \/ \E c \in 1..MaxCalls : UploadStream(c)
    \/ \E c \in 1..MaxCalls : Respond(c)

StreamSpec == Init /\ [][StreamNext]_vars

\* C23: the step in which an upload given a file object sends its request
\* leaves the file object at its end, and the body sent, the bytes hashed
\* for the x-amz-content-sha256 header and the bytes hashed for the
\* canonical request are the bytes that stood between the position of the
\* file object before the step and its end.
C23_StreamDrainedThenHashed ==
    [][\A c \in 1..MaxCalls :
          (calls[c].pc = "idle" /\ calls'[c].pc = "awaiting" /\ calls'[c].streamed) =>
             LET rest == SubSeq(stream.content, stream.pos + 1, Len(stream.content))
                 r == transport'[Len(transport')]
             IN /\ stream'.content = stream.content
                /\ stream'.pos = Len(stream.content)
                /\ Len(transport') = Len(transport) + 1
                /\ r.call = c
                /\ r.content = rest
                /\ DictGet(r.headers, XAmzContentSha256Name) = Hex(Sha256(rest))
                /\ PayloadHashField(calls'[c].signing.canonical_request)
                       = Hex(Sha256(rest))]_vars

\* the file object was handed over after two of its five bytes were read,
\* its other three bytes were sent, and a second upload of it sent no byte
C23_Witness ==
    /\ stream.pos = Len(stream.content)
    /\ \E i, j \in 1..Len(transport) :
          /\ i < j
          /\ calls[transport[i].call].streamed
          /\ calls[transport[j].call].streamed
          /\ transport[i].content = <<108, 108, 111>>
          /\ transport[j].content = <<>>

---------------------------------------------------------------------------
(* The settings object changed under a client, under SettingsSpec.         *)

\* the settings after every R2 field was assigned another value
ChangedSettings ==
    [cloudflare_account_id |-> <<122>>,
     r2_access_key_id      |-> <<122>>,
     r2_secret_access_key  |-> <<122>>,
     r2_bucket_name        |-> <<122>>,
     r2_public_url         |-> <<104, 116, 116, 112, 115, 58, 47, 47, 122>>]   \* "https://z"

\* settings.<field> = ..., somewhere in the process, after the client was
\* constructed: Settings is not frozen.
ChangeSettings ==
    /\ settings = LoadedSettings
    /\ settings' = ChangedSettings
    /\ UNCHANGED <<client, now, calls, transport, sgBase, sgLog, sgCount, stream,
                   routerVars, agentVars>>

SettingsNext ==
    \/ ChangeSettings
    \/ \E c \in 1..MaxCalls : UploadFile(c)
    \/ \E c \in 1..MaxCalls : DeleteFile(c)
    \/ \E c \in 1..MaxCalls : Respond(c)

SettingsSpec == Init /\ [][SettingsNext]_vars

\* every request sent is the request of the settings the client was
\* constructed from: their account in the URL and the Host header, their
\* bucket in the URL, their access key in the credential, their secret key
\* in the signature
RequestOfConstruction ==
    \A i \in 1..Len(transport) :
        LET r == transport[i]
            auth == DictGet(r.headers, AuthorizationName)
            then == LoadedSettings
        IN /\ r.url = Https \o then.cloudflare_account_id \o R2Domain \o Slash
                        \o then.r2_bucket_name \o Slash \o calls[r.call].key
           /\ DictGet(r.headers, HostName) = then.cloudflare_account_id \o R2Domain
           /\ IsPrefix(then.r2_access_key_id \o Slash,
                       Between(CredentialEq, SignedHeadersEq, auth))
           /\ IsPrefix(<<-5, -2, -2, -2, -2, -2>> \o Aws4 \o then.r2_secret_access_key \o <<-3>>,
                       SignatureField(auth))

\* every URL an upload returned is built on the public base URL of the
\* settings the client was constructed from
ReturnedUrlOfConstruction ==
    \A c \in 1..MaxCalls :
        (calls[c].op = "upload" /\ calls[c].result.kind = "return") =>
            calls[c].result.value = LoadedSettings.r2_public_url \o Slash \o calls[c].key

\* C25: whatever was assigned to the settings object after the client was
\* constructed, every request sent and every URL returned is built from
\* the settings as they were when the client was constructed.
C25_FixedAtConstruction == RequestOfConstruction /\ ReturnedUrlOfConstruction

---------------------------------------------------------------------------
(* Object keys with characters a URL gives a meaning to, under KeySpec.    *)

ObjectKeys ==
    {<<97, 47, 98>>,             \* "a/b"
     <<97, 32, 98>>,             \* "a b"
     <<97, 63, 98>>,             \* "a?b"
     <<97, 35, 98>>,             \* "a#b"
     <<97, 37, 52, 49>>}         \* "a%41"

UploadKeyed(c) ==
    /\ NextCall(c)
    /\ \E key \in ObjectKeys : upload_file(c, Bytes(<<>>), key, OctetStream)
    /\ UNCHANGED <<settings, client, now, sgBase, sgLog, sgCount, routerVars,
                   agentVars>>

DeleteKeyed(c) ==
    /\ NextCall(c)
    /\ \E key \in ObjectKeys : delete_file(c, key)
    /\ UNCHANGED <<settings, client, now, sgBase, sgLog, sgCount, stream,
                   routerVars, agentVars>>

KeyNext ==
    \/ \E c \in 1..MaxCalls : UploadKeyed(c)
    \/ \E c \in 1..MaxCalls : DeleteKeyed(c)
    \/ \E c \in 1..MaxCalls : Respond(c)

KeySpec == Init /\ [][KeyNext]_vars

\* client.put(url, ...) / client.delete(url, ...): httpx parses the URL it
\* is given.  Its path is what stands after the authority, up to the first
\* "?" (where the query begins) or "#" (where the fragment begins).
UrlPath(url) ==
    LET rest == SubSeq(url, Len(Https) + 1, Len(url))
        tail == SubSeq(rest, IndexOf(Slash, rest), Len(rest))
        stops == {i \in 1..Len(tail) : tail[i] \in {63, 35}}
        end == IF stops = {} THEN Len(tail)
               ELSE (CHOOSE i \in stops : \A j \in stops : i <= j) - 1
    IN SubSeq(tail, 1, end)

IsHex(c) == c \in (48..57) \cup (65..70) \cup (97..102)

\* the characters httpx leaves as they are in a path: the unreserved ones,
\* "/", and !$&'()*+,;=:@
HttpxPathSafe == QuoteSafe \cup {33, 36, 38, 39, 40, 41, 42, 43, 44, 59, 61, 58, 64}

\* the path as httpx puts it on the request line: a percent escape stays
\* as it is, any other character that is not safe is percent-encoded
RECURSIVE PathOnWire(_)
PathOnWire(p) ==
    IF p = <<>> THEN <<>>
    ELSE IF p[1] = 37 /\ Len(p) >= 3 /\ IsHex(p[2]) /\ IsHex(p[3])
         THEN SubSeq(p, 1, 3) \o PathOnWire(SubSeq(p, 4, Len(p)))
         ELSE (IF p[1] \in HttpxPathSafe THEN <<p[1]>>
               ELSE <<37, HexDigit(p[1] \div 16), HexDigit(p[1] % 16)>>)
                  \o PathOnWire(Tail(p))

HexValue(c) == IF c \in 48..57 THEN c - 48 ELSE IF c \in 65..70 THEN c - 55 ELSE c - 87

\* the path a percent-encoded path denotes
RECURSIVE Unquote(_)
Unquote(s) ==
    IF s = <<>> THEN <<>>
    ELSE IF s[1] = 37 /\ Len(s) >= 3 /\ IsHex(s[2]) /\ IsHex(s[3])
         THEN <<16 * HexValue(s[2]) + HexValue(s[3])>> \o Unquote(SubSeq(s, 4, Len(s)))
         ELSE <<s[1]>> \o Unquote(Tail(s))

\* the second line of a canonical request: the canonical URI
SignedUri(cr) == Between(NL, NL, cr)

\* C28: of every request sent, the canonical URI that was signed denotes
\* /<bucket>/<key>, and the path the request goes to denotes the same path.
C28_SignedPathIsSentPath ==
    \A i \in 1..Len(transport) :
        LET r == transport[i]
            signed == SignedUri(calls[r.call].signing.canonical_request)
        IN /\ Unquote(signed) = Slash \o client.bucket_name \o Slash \o calls[r.call].key
           /\ Unquote(PathOnWire(UrlPath(r.url))) = Unquote(signed)

---------------------------------------------------------------------------
(* agents/shelf_assistant.py and agents/test_gemini.py: one process, one   *)
(* event loop.  main() is a coroutine; every photo the watcher reports is  *)
(* a process_image coroutine scheduled onto the loop.  A coroutine runs    *)
(* without suspension from one await to the next.  The file system and     *)
(* the API server act on their own.                                        *)
(*                                                                         *)
(* A coroutine is a record: phase says what it is (main at its first       *)
(* check, in the scan of existing photos, in the watch loop; or the        *)
(* coroutine of a watcher event), pc the await it stands at, filename the  *)
(* photo process_image was called with, choice and status what the API     *)
(* answered to the request it awaits, mark_id the id it asked to mark,     *)
(* marked the ids it marked processed and cleared, result what             *)
(* process_image returned to the loop (None, or the response of an agent). *)

MaxEvents == 1         \* watcher events in one behaviour
MaxChoices == 1        \* choices the user makes in one behaviour

Programs == {"shelf_assistant", "test_gemini"}

\* filename.lower().endswith((".jpg", ".jpeg", ".png"))
IsImageName(filename) ==
    \E ext \in {<<46, 106, 112, 103>>, <<46, 106, 112, 101, 103>>, <<46, 112, 110, 103>>} :
        /\ Len(ext) <= Len(filename)
        /\ SubSeq(Lower(filename), Len(filename) - Len(ext) + 1, Len(filename)) = ext

\* whether sub stands somewhere in text: `sub in text`
Contains(sub, text) ==
    \E i \in 1..(Len(text) - Len(sub) + 1) : SubSeq(text, i, i + Len(sub) - 1) = sub

\* LocalPhotoManager.get_flag
get_flag(filename) ==
    IF Contains(<<95, 108, 111, 119, 46>>, Lower(filename)) THEN "low"
    ELSE IF Contains(<<95, 104, 105, 103, 104, 46>>, Lower(filename)) THEN "high"
    ELSE "None"

\* os.listdir: the names of a set in some order
RECURSIVE Listed(_)
Listed(S) ==
    IF S = {} THEN <<>>
    ELSE LET x == CHOOSE x \in S : TRUE IN <<x>> \o Listed(S \ {x})

\* sorted(photo_manager.list_photos(flag=flag))
list_photos(flag) ==
    SortedStrs(Listed({f \in directory : IsImageName(f) /\ get_flag(f) = flag}))

\* the membership test left out
AlreadyProcessed_never(filename) == FALSE

\* `filename in self.processed_files`
AlreadyProcessed(filename) == filename \in processed_files

\* coroutine 0 is main(), coroutine i > 0 the i-th watcher event
Co(i) == IF i = 0 THEN main ELSE tasks[i]
Coroutines == 0..Len(tasks)

SetCo(i, co) ==
    /\ main' = IF i = 0 THEN co ELSE main
    /\ tasks' = IF i = 0 THEN tasks ELSE [tasks EXCEPT ![i] = co]

\* process_image returns: the coroutine of an event ends with the result,
\* the scan drops the result and goes on
Returned(co, result) ==
    LET back == [co EXCEPT !.choice = <<>>, !.mark_id = 0, !.status = 0]
    IN IF co.phase = "event" THEN [back EXCEPT !.pc = "done", !.result = result]
       ELSE [back EXCEPT !.pc = "scan"]

\* agent.generate(...) for a photo: the call is logged
Generate(agent, filename) == [generated EXCEPT ![filename] = Append(@, agent)]

\* asyncio.run(main()) of one of the two scripts.  shelf_assistant's main
\* awaits check_for_user_choice first; test_gemini's begins with the scan.
Start ==
    /\ program = "none"
    /\ \E p \in Programs :
         /\ program' = p
         /\ main' = IF p = "shelf_assistant"
                    THEN [NoCoroutine EXCEPT !.phase = "check", !.pc = "get_sent"]
                    ELSE [NoCoroutine EXCEPT !.phase = "scan", !.pc = "scan",
                                             !.flags = <<"low", "high">>]
    /\ UNCHANGED <<storageVars, routerVars, now, directory, tasks, processed_files,
                   current_user_choice, guidance_agent, generated>>

\* The camera app writes a photo.  Once the observer runs, on_created
\* schedules process_image(filename) onto the loop.
FileCreated(f) ==
    /\ f \notin directory
    /\ directory' = directory \cup {f}
    /\ IF main.phase = "watch" /\ IsImageName(f)
       THEN /\ Len(tasks) < MaxEvents
            /\ tasks' = Append(tasks, [NoCoroutine EXCEPT !.phase = "event",
                                                          !.pc = "start",
                                                          !.filename = f])
       ELSE UNCHANGED tasks
    /\ UNCHANGED <<storageVars, routerVars, now, program, main, processed_files,
                   current_user_choice, guidance_agent, generated>>

\* A photo is removed from the directory.
FileRemoved(f) ==
    /\ f \in directory
    /\ directory' = directory \ {f}
    /\ UNCHANGED <<storageVars, routerVars, now, program, main, tasks,
                   processed_files, current_user_choice, guidance_agent, generated>>

\* The user picks an item in the app: POST /user-choice.
UserChooses ==
    /\ Len(requests) < MaxChoices
    /\ CreateUserChoice

\* process_existing_photos: the next photo of the list, the list of the
\* next flag, or the end of the scan, where watch_for_photos starts the
\* observer and enters its loop.
ScanNext ==
    /\ main.phase = "scan" /\ main.pc = "scan"
    /\ main' = IF main.todo # <<>>
               THEN [main EXCEPT !.filename = Head(main.todo),
                                 !.todo = Tail(main.todo), !.pc = "start"]
               ELSE IF main.flags # <<>>
               THEN [main EXCEPT !.todo = list_photos(Head(main.flags)),
                                 !.flags = Tail(main.flags)]
               ELSE [main EXCEPT !.phase = "watch",
                                 !.pc = IF program = "shelf_assistant"
                                        THEN "get_sent" ELSE "sleep"]
    /\ UNCHANGED <<storageVars, routerVars, now, program, directory, tasks,
                   processed_files, current_user_choice, guidance_agent, generated>>

\* while True: await assistant.check_for_user_choice(); await asyncio.sleep(2)
WatchWakes ==
    /\ program = "shelf_assistant"
    /\ main.phase = "watch" /\ main.pc = "sleep"
    /\ main' = [main EXCEPT !.pc = "get_sent"]
    /\ UNCHANGED <<storageVars, routerVars, now, program, directory, tasks,
                   processed_files, current_user_choice, guidance_agent, generated>>

\* process_image(filename), to its return or to its first await: of
\* agent.generate in test_gemini; in shelf_assistant of upload_csv after the
\* identification of a HIGH photo, or of check_for_user_choice for a LOW one.
ProcessImage(i) ==
    /\ Co(i).pc = "start"
    /\ LET co == Co(i)
           filename == co.filename
           flag == get_flag(filename)
       IN IF AlreadyProcessed(filename) \/ flag = "None" \/ filename \notin directory
          THEN /\ SetCo(i, Returned(co, "None"))
               /\ UNCHANGED <<processed_files, generated>>
          ELSE /\ processed_files' = processed_files \cup {filename}
               /\ IF program = "test_gemini"
                  THEN /\ generated' = Generate(IF flag = "low" THEN "NAVIGATION"
                                                ELSE "IDENTIFICATION", filename)
                       /\ SetCo(i, [co EXCEPT !.pc = "generating"])
                  ELSE IF flag = "high"
                  THEN /\ generated' = Generate("IDENTIFICATION", filename)
                       /\ SetCo(i, [co EXCEPT !.pc = "csv_sent"])
                  ELSE /\ SetCo(i, [co EXCEPT !.pc = "get_sent"])
                       /\ UNCHANGED generated
    /\ UNCHANGED <<storageVars, routerVars, now, program, directory,
                   current_user_choice, guidance_agent>>

\* test_gemini: `await agent.generate(...)` returns
Generated(i) ==
    /\ Co(i).pc = "generating"
    /\ SetCo(i, Returned(Co(i), "response"))
    /\ UNCHANGED <<storageVars, routerVars, now, program, directory,
                   processed_files, current_user_choice, guidance_agent, generated>>

\* _process_high_image: `await self.api_client.upload_csv(...)` returns or
\* raises; either way the response of the agent is returned
CsvUploaded(i) ==
    /\ Co(i).pc = "csv_sent"
    /\ SetCo(i, Returned(Co(i), "response"))
    /\ UNCHANGED <<storageVars, routerVars, now, program, directory,
                   processed_files, current_user_choice, guidance_agent, generated>>

\* The API answers GET /user-choice/latest?unprocessed_only=true of
\* coroutine i: 200 with the row of the query or null, or it fails.
ServeLatest(i) ==
    /\ Co(i).pc = "get_sent"
    /\ \/ \E result \in LatestQuery(user_choices, TRUE) :
            SetCo(i, [Co(i) EXCEPT !.pc = "get_answered", !.status = 200,
                                   !.choice = UserChoiceDetail(result)])
       \/ SetCo(i, [Co(i) EXCEPT !.pc = "get_answered", !.status = 500,
                                 !.choice = <<>>])
    /\ UNCHANGED <<storageVars, routerVars, now, program, directory,
                   processed_files, current_user_choice, guidance_agent, generated>>

\* check_for_user_choice from the answer of the API on, and what the caller
\* does next, to its next await: main begins the scan, or sleeps in the
\* watch loop; _process_low_image asks the guidance agent or the
\* navigation agent, and sends the PATCH when the guidance agent says the
\* item is reached.
Checked(i) ==
    /\ Co(i).pc = "get_answered"
    /\ LET co == Co(i)
           choice == co.choice
           adopts == choice # <<>> /\ choice # current_user_choice
           current == IF adopts THEN choice ELSE current_user_choice
           agent == IF adopts
                    THEN <<[item_name |-> choice[1].item_name,
                            item_location |-> choice[1].item_location]>>
                    ELSE guidance_agent
       IN /\ current_user_choice' = current
          /\ guidance_agent' = agent
          /\ IF co.phase = "check"
             THEN /\ SetCo(i, [co EXCEPT !.phase = "scan", !.pc = "scan",
                                         !.flags = <<"low", "high">>,
                                         !.choice = <<>>, !.status = 0])
                  /\ UNCHANGED generated
             ELSE IF co.phase = "watch"
             THEN /\ SetCo(i, [co EXCEPT !.pc = "sleep", !.choice = <<>>,
                                         !.status = 0])
                  /\ UNCHANGED generated
             ELSE IF current # <<>> /\ agent # <<>>
             THEN /\ generated' = Generate("GUIDANCE", co.filename)
                  /\ \E got_it \in BOOLEAN :
                       SetCo(i, IF got_it
                                THEN [co EXCEPT !.pc = "mark_sent",
                                                !.choice = <<>>,
                                                !.mark_id = current[1].id]
                                ELSE Returned(co, "response"))
             ELSE /\ generated' = Generate("NAVIGATION", co.filename)
                  /\ SetCo(i, Returned(co, "response"))
    /\ UNCHANGED <<storageVars, routerVars, now, program, directory,
                   processed_files>>

\* The API answers PATCH /user-choice/{id}/processed of coroutine i: the
\* row is marked and the answer is 200, or the request fails.
ServeMark(i) ==
    /\ Co(i).pc = "mark_sent"
    /\ \/ /\ \E r \in 1..Len(user_choices) : user_choices[r].id = Co(i).mark_id
          /\ user_choices' = [r \in 1..Len(user_choices) |->
                 IF user_choices[r].id = Co(i).mark_id
                 THEN [user_choices[r] EXCEPT !.processed = TRUE]
                 ELSE user_choices[r]]
          /\ SetCo(i, [Co(i) EXCEPT !.pc = "mark_answered", !.status = 200])
       \/ /\ SetCo(i, [Co(i) EXCEPT !.pc = "mark_answered", !.status = 500])
          /\ UNCHANGED user_choices
    /\ UNCHANGED <<storageVars, now, requests, reply, program, directory,
                   processed_files, current_user_choice, guidance_agent, generated>>

\* _process_low_image after `await mark_choice_processed(...)`: the choice
\* and the guidance agent are cleared, unless the call raised.
MarkReturned(i) ==
    /\ Co(i).pc = "mark_answered"
    /\ IF Co(i).status = 200
       THEN /\ current_user_choice' = <<>>
            /\ guidance_agent' = <<>>
            /\ SetCo(i, Returned([Co(i) EXCEPT !.marked = @ \cup {Co(i).mark_id}],
                                  "response"))
       ELSE /\ SetCo(i, Returned(Co(i), "response"))
            /\ UNCHANGED <<current_user_choice, guidance_agent>>
    /\ UNCHANGED <<storageVars, routerVars, now, program, directory,
                   processed_files, generated>>

AgentNext ==
    \/ Start
    \/ \E f \in Filenames : FileCreated(f)
    \/ \E f \in Filenames : FileRemoved(f)
    \/ UserChooses
    \/ \E h \in 1..Len(requests) : CreateCommit(h)
    \/ ScanNext
    \/ WatchWakes
    \/ \E i \in Coroutines : ProcessImage(i)
    \/ \E i \in Coroutines : Generated(i)
    \/ \E i \in Coroutines : CsvUploaded(i)
    \/ \E i \in Coroutines : ServeLatest(i)
    \/ \E i \in Coroutines : Checked(i)
    \/ \E i \in Coroutines : ServeMark(i)
    \/ \E i \in Coroutines : MarkReturned(i)

AgentSpec == Init /\ [][AgentNext]_vars


AllMarked == UNION {Co(i).marked : i \in Coroutines}

\* C30: the assistant never takes as current_user_choice a choice it has
\* marked processed and cleared before.
C30_NeverAdoptedAgain ==
    [][(current_user_choice' # <<>> /\ current_user_choice' # current_user_choice)
          => current_user_choice'[1].id \notin AllMarked]_vars

====
